---------------------------- MODULE Spec2Model ----------------------------
(***************************************************************************)
(* streamdown-tty: the streaming Markdown parser session                   *)
(* (src/src/parser/streaming-parser.ts, class StreamingMarkdownParser).    *)
(*                                                                         *)
(* Text is modelled as a sequence of characters, each character a          *)
(* one-character string.  The backtick cannot be written inside a TLA+     *)
(* string, so that one character is written Backtick.                      *)
(***************************************************************************)
EXTENDS Naturals, Integers, Sequences, FiniteSets, TLC

VARIABLES
    buffer,          \* this.buffer
    tokens,          \* this.tokens
    parseIncomplete, \* this.parseIncomplete (fixed by the constructor)
    chunks,          \* history: the raw chunks passed to addChunk since the last clear
    returned,        \* history: the value the last addChunk call returned
    outcome,         \* history: "none" | "returned" | "threw" | "cleared": how the last call ended
    path             \* history: "none" | "primary" | "fallback": the branch of parse() the last addChunk took

parserVars == <<buffer, tokens, parseIncomplete, chunks, returned, outcome, path>>

\* A table on its way from Markdown text to table data: the table fed in,
\* the content of its table token, the data parsed from that content, and
\* how far it has come.
VARIABLES tableSrc, tableContent, tableData, tableStage
tableVars == <<tableSrc, tableContent, tableData, tableStage>>

\* A Streamtty instance: context.buffer.content and context.buffer.tokens,
\* the pendingUpdate flag, the number of setTimeout callbacks not yet run,
\* the children of the container, and what the last render pass did: the
\* token whose rendering failed (0 for none) and whether an exception left
\* render().  batched counts the stream and setContent calls since the last
\* render pass, wasCleared records a clear() since the parser was created.
VARIABLES stContent, stTokens, pendingUpdate, timers, container, failedAt,
          renderThrew, batched, wasCleared
streamttyVars ==
    <<stContent, stTokens, pendingUpdate, timers, container, failedAt,
      renderThrew, batched, wasCleared>>

\* One call of sanitizeForTerminal with the default options: its input, its
\* result, and whether the call was made.
VARIABLES sanInput, sanResult, sanCalled
sanitizerVars == <<sanInput, sanResult, sanCalled>>

\* An AISDKStreamAdapter over a recording renderer: options.renderTimestamps,
\* the locale of the process, and for each call of renderer.stream its
\* argument, the event that was processed and the option at that time.
\* adShowThinking is options.showThinking, adProcessed the events given to
\* processEvent so far, adLastUpdate the argument of updateOptions when the
\* last step was that call.
VARIABLES adRenderTimestamps, adShowThinking, adLocale, adStreamed, adProcessed,
          adLastUpdate
adapterVars ==
    <<adRenderTimestamps, adShowThinking, adLocale, adStreamed, adProcessed,
      adLastUpdate>>

\* One event given to the static methods of StreamProtocol: the event, and
\* what validateEvent and getEventPriority returned for it, if called.
VARIABLES prEvent, prValid, prPriority
protocolVars == <<prEvent, prValid, prPriority>>

\* The render passes of a Streamtty instance that are suspended at an
\* await, oldest first: the token list each was given, the token it waits
\* at, and whether it waits for a settled promise ("micro") or for the
\* diagram tool ("macro").  stVersion counts the stream and setContent
\* calls, lastStarted is the count at the start of the latest pass,
\* passesStarted counts the passes, directCalls those not started by the
\* debounce timer.
VARIABLES passes, stVersion, lastStarted, passesStarted, directCalls
renderVars == <<passes, stVersion, lastStarted, passesStarted, directCalls>>

\* A renderer made by createStreamRenderer: isDestroyed, the handlers
\* registered for 'destroy' in order, the events a running streamEvents or
\* handleAISDKStream loop has yet to take from its generator, and as
\* history the calls that reached the Streamtty instance, the handlers
\* invoked, and the handlers that were registered when destroy() was first
\* called.
VARIABLES isDestroyed, srListeners, srLoop, srDelivered, srInvoked, srAtDestroy
streamRendererVars ==
    <<isDestroyed, srListeners, srLoop, srDelivered, srInvoked, srAtDestroy>>

\* A SafeOperation and one execute call on it: the error handler's
\* options, whether the context given to execute can be written as JSON,
\* the loop's attempt, the number of times the operation was invoked, the
\* results shouldRetry gave, where the call stands, and what the promise
\* execute returned was settled with.
VARIABLES soHandler, soContext, soAttempt, soCalls, soRetries, soState, soResult
safeOpVars ==
    <<soHandler, soContext, soAttempt, soCalls, soRetries, soState, soResult>>

\* A StreamttyEventEmitter: maxHistorySize, eventHistory, the filters added
\* per event name, the event names listened to, and as history every emit
\* call since the history was last cleared, with the verdict of the filters
\* and the listeners it was delivered to.
VARIABLES maxHistorySize, eventHistory, filters, emListeners, emLog
emitterVars == <<maxHistorySize, eventHistory, filters, emListeners, emLog>>

vars ==
    <<parserVars, tableVars, streamttyVars, sanitizerVars, adapterVars,
      protocolVars, renderVars, streamRendererVars, safeOpVars, emitterVars>>

\* parseMarkdownTable's null
NoTable == [ok |-> FALSE, headers |-> << >>, rows |-> << >>]

\* The variables of a component no step of the specification touches.
ParserIdle ==
    /\ buffer = << >> /\ tokens = << >> /\ parseIncomplete = TRUE
    /\ chunks = << >> /\ returned = << >> /\ outcome = "none" /\ path = "none"

TableIdle ==
    /\ tableSrc = [header |-> << >>, rows |-> << >>]
    /\ tableContent = << >>
    /\ tableData = NoTable
    /\ tableStage = "idle"

StreamttyIdle ==
    /\ stContent = << >> /\ stTokens = << >>
    /\ pendingUpdate = FALSE /\ timers = 0
    /\ container = << >> /\ failedAt = 0 /\ renderThrew = FALSE
    /\ batched = 0 /\ wasCleared = FALSE

SanitizerIdle ==
    /\ sanInput = << >> /\ sanResult = << >> /\ sanCalled = FALSE

SafeOpIdle ==
    /\ soHandler = [maxRetries |-> 3, fallbackEnabled |-> TRUE]
    /\ soContext = "plain" /\ soAttempt = 0 /\ soCalls = 0
    /\ soRetries = << >> /\ soState = "idle" /\ soResult = << >>

EmitterIdle ==
    /\ maxHistorySize = 100 /\ eventHistory = << >> /\ filters = << >>
    /\ emListeners = {} /\ emLog = << >>

StreamRendererIdle ==
    /\ isDestroyed = FALSE /\ srListeners = << >> /\ srLoop = << >>
    /\ srDelivered = << >> /\ srInvoked = << >> /\ srAtDestroy = << >>

RenderIdle ==
    /\ passes = << >> /\ stVersion = 0 /\ lastStarted = 0
    /\ passesStarted = 0 /\ directCalls = 0

ProtocolIdle ==
    /\ prEvent = [t |-> "undefined"] /\ prValid = << >> /\ prPriority = << >>

AdapterIdle ==
    /\ adRenderTimestamps = FALSE /\ adShowThinking = TRUE /\ adLocale = "en-GB"
    /\ adStreamed = << >> /\ adProcessed = << >> /\ adLastUpdate = << >>

-----------------------------------------------------------------------------
(* Characters and character classes (as the JavaScript regular expressions   *)
(* of the source and of the lexer read them).                                *)

Backtick == "BACKTICK"
NL == "\n"

Digits == {"0", "1", "2", "3", "4", "5", "6", "7", "8", "9"}
HexLower == {"a", "b", "c", "d", "e", "f"}
HexUpper == {"A", "B", "C", "D", "E", "F"}
HexDigits == Digits \cup HexLower \cup HexUpper

\* \s of a JavaScript regular expression, over the characters of the model.
IsSpace(c) == c \in {" ", NL, "\t"}

\* ASCII punctuation, the lexer's punctuation class.
Punctuation ==
    {"!", "\"", "#", "$", "%", "&", "'", "(", ")", "*", "+", ",", "-", ".", "/",
     ":", ";", "<", "=", ">", "?", "@", "[", "\\", "]", "^", "_", Backtick, "{",
     "|", "}", "~"}

IsPunct(c) == c \in Punctuation

-----------------------------------------------------------------------------
(* Sequence helpers.                                                         *)

Last(s) == s[Len(s)]

\* s.slice(i - 1): the characters of s from position i on.
From(s, i) == IF i > Len(s) THEN << >> ELSE SubSeq(s, i, Len(s))

\* Whether p occurs in s at position i.
MatchAt(s, i, p) ==
    /\ i >= 1
    /\ i + Len(p) - 1 <= Len(s)
    /\ \A k \in 1..Len(p) : s[i + k - 1] = p[k]

\* The position of the first c at or after position i, Len(s) + 1 when none.
RECURSIVE IndexOf(_, _, _)
IndexOf(s, c, i) ==
    IF i > Len(s) THEN Len(s) + 1
    ELSE IF s[i] = c THEN i
    ELSE IndexOf(s, c, i + 1)

\* The number of consecutive c starting at position i.
RECURSIVE RunLen(_, _, _)
RunLen(s, c, i) ==
    IF i > Len(s) \/ s[i] # c THEN 0 ELSE 1 + RunLen(s, c, i + 1)

RECURSIVE Concat(_)
Concat(ss) == IF ss = << >> THEN << >> ELSE Head(ss) \o Concat(Tail(ss))

\* String.prototype.trim()
RECURSIVE TrimLeft(_)
TrimLeft(s) == IF s # << >> /\ IsSpace(Head(s)) THEN TrimLeft(Tail(s)) ELSE s

RECURSIVE TrimRight(_)
TrimRight(s) ==
    IF s # << >> /\ IsSpace(Last(s)) THEN TrimRight(SubSeq(s, 1, Len(s) - 1)) ELSE s

Trim(s) == TrimRight(TrimLeft(s))

\* String.prototype.split('\n')
RECURSIVE SplitLines(_)
SplitLines(s) ==
    LET e == IndexOf(s, NL, 1)
    IN  IF e > Len(s) THEN <<s>>
        ELSE <<SubSeq(s, 1, e - 1)>> \o SplitLines(From(s, e + 1))

-----------------------------------------------------------------------------
(* preprocessText (src/src/parser/streaming-parser.ts:36-69).                *)

\* String.prototype.replace(/pat/g, rep) for a literal pattern: every
\* occurrence, left to right, the replaced text is not scanned again.
RECURSIVE ReplaceAll(_, _, _)
ReplaceAll(s, pat, rep) ==
    IF s = << >> THEN << >>
    ELSE IF MatchAt(s, 1, pat) THEN rep \o ReplaceAll(From(s, Len(pat) + 1), pat, rep)
    ELSE <<Head(s)>> \o ReplaceAll(Tail(s), pat, rep)

\* The printable ASCII characters, code 32 to 126.
AsciiChars ==
    <<
     " ", "!", "\"", "#", "$", "%", "&", "'", "(", ")", "*", "+", ",", "-",
     ".", "/", "0", "1", "2", "3", "4", "5", "6", "7", "8", "9", ":", ";",
     "<", "=", ">", "?", "@", "A", "B", "C", "D", "E", "F", "G", "H", "I",
     "J", "K", "L", "M", "N", "O", "P", "Q", "R", "S", "T", "U", "V", "W",
     "X", "Y", "Z", "[", "\\", "]", "^", "_", Backtick, "a", "b", "c", "d",
     "e", "f", "g", "h", "i", "j", "k", "l", "m", "n", "o", "p", "q", "r",
     "s", "t", "u", "v", "w", "x", "y", "z", "{", "|", "}", "~"
    >>

\* String.fromCharCode(n): the UTF-16 code unit n modulo 2^16.  A code unit
\* outside ASCII is written "U+<code>".
CharOfCode(n) ==
    LET u == n % 65536
    IN  IF u >= 32 /\ u <= 126 THEN AsciiChars[u - 31]
        ELSE IF u = 10 THEN NL
        ELSE IF u = 9 THEN "\t"
        ELSE "U+" \o ToString(u)

DigitValue(c) ==
    CASE c = "0" -> 0 [] c = "1" -> 1 [] c = "2" -> 2 [] c = "3" -> 3
      [] c = "4" -> 4 [] c = "5" -> 5 [] c = "6" -> 6 [] c = "7" -> 7
      [] c = "8" -> 8 [] c = "9" -> 9
      [] c \in {"a", "A"} -> 10 [] c \in {"b", "B"} -> 11
      [] c \in {"c", "C"} -> 12 [] c \in {"d", "D"} -> 13
      [] c \in {"e", "E"} -> 14 [] c \in {"f", "F"} -> 15

\* parseInt(ds, radix) of a non-empty run of digits of that radix.
RECURSIVE ParseInt(_, _)
ParseInt(ds, radix) ==
    IF ds = << >> THEN 0
    ELSE ParseInt(SubSeq(ds, 1, Len(ds) - 1), radix) * radix + DigitValue(Last(ds))

\* The number of consecutive characters of class cls starting at position i.
RECURSIVE ClassRun(_, _, _)
ClassRun(s, cls, i) ==
    IF i > Len(s) \/ s[i] \notin cls THEN 0 ELSE 1 + ClassRun(s, cls, i + 1)

\* processed.replace(/&#(\d+);/g, ...) (radix 10, prefix "&#") and
\* processed.replace(/&#x([a-fA-F0-9]+);/g, ...) (radix 16, prefix "&#x").
RECURSIVE DecodeRefs(_, _, _, _)
DecodeRefs(s, prefix, cls, radix) ==
    IF s = << >> THEN << >>
    ELSE LET d == Len(prefix) + 1
             n == ClassRun(s, cls, d)
         IN  IF MatchAt(s, 1, prefix) /\ n >= 1 /\ MatchAt(s, d + n, <<";">>)
             THEN <<CharOfCode(ParseInt(SubSeq(s, d, d + n - 1), radix))>>
                      \o DecodeRefs(From(s, d + n + 1), prefix, cls, radix)
             ELSE <<Head(s)>> \o DecodeRefs(Tail(s), prefix, cls, radix)

ItalicOpen == <<"{", "i", "t", "a", "l", "i", "c", "}">>
ItalicClose == <<"{", "/", "i", "t", "a", "l", "i", "c", "}">>

\* The position of the first {/italic} at or after position j that . (no
\* line break) can reach, 0 when there is none.
RECURSIVE FindItalicClose(_, _)
FindItalicClose(s, j) ==
    IF j > Len(s) THEN 0
    ELSE IF MatchAt(s, j, ItalicClose) THEN j
    ELSE IF s[j] = NL THEN 0
    ELSE FindItalicClose(s, j + 1)

\* processed.replace(/\{italic\}(.*?)\{\/italic\}/g, '_$1_')
RECURSIVE ReplaceItalic(_)
ReplaceItalic(s) ==
    IF s = << >> THEN << >>
    ELSE LET j == IF MatchAt(s, 1, ItalicOpen)
                  THEN FindItalicClose(s, Len(ItalicOpen) + 1) ELSE 0
         IN  IF j > 0
             THEN <<"_">> \o SubSeq(s, Len(ItalicOpen) + 1, j - 1) \o <<"_">>
                      \o ReplaceItalic(From(s, j + Len(ItalicClose)))
             ELSE <<Head(s)>> \o ReplaceItalic(Tail(s))

\* The named entities, in the order the source replaces them.
NamedEntities ==
    << <<<<"&", "#", "3", "9", ";">>, <<"'">>>>,
       <<<<"&", "q", "u", "o", "t", ";">>, <<"\"">>>>,
       <<<<"&", "a", "m", "p", ";">>, <<"&">>>>,
       <<<<"&", "l", "t", ";">>, <<"<">>>>,
       <<<<"&", "g", "t", ";">>, <<">">>>>,
       <<<<"&", "n", "b", "s", "p", ";">>, <<" ">>>>,
       <<<<"&", "#", "x", "2", "7", ";">>, <<"'">>>>,
       <<<<"&", "#", "x", "2", "F", ";">>, <<"/">>>>,
       <<<<"&", "#", "x", "6", "0", ";">>, <<Backtick>>>> >>

RECURSIVE ReplaceNamed(_, _)
ReplaceNamed(s, k) ==
    IF k > Len(NamedEntities) THEN s
    ELSE ReplaceNamed(ReplaceAll(s, NamedEntities[k][1], NamedEntities[k][2]), k + 1)

\* The escape character and the bell character, as String.fromCharCode
\* gives them.
Esc == "U+27"
Bel == "U+7"

\* The ASCII letters, the final characters of a control sequence.
Letters == {AsciiChars[k] : k \in (34..59) \cup (66..91)}

\* The last position of the control sequence ESC [ (digits and ;) letter
\* that starts at position i, 0 when none starts there.
CsiEnd(s, i) ==
    LET j == i + 2 + ClassRun(s, Digits \cup {";"}, i + 2)
    IN  IF MatchAt(s, i, <<Esc, "[">>) /\ j <= Len(s) /\ s[j] \in Letters
        THEN j ELSE 0

\* The last position of the operating system command ESC ] ... BEL that
\* starts at position i, 0 when none starts there.
OscEnd(s, i) ==
    LET j == IndexOf(s, Bel, i + 2)
    IN  IF MatchAt(s, i, <<Esc, "]">>) /\ j <= Len(s) THEN j ELSE 0

\* The last position of the escape sequence that starts at position i.
SeqEnd(s, i, withOsc) ==
    IF CsiEnd(s, i) > 0 THEN CsiEnd(s, i)
    ELSE IF withOsc THEN OscEnd(s, i) ELSE 0

\* The escape sequences of s, in order: the control sequences, and with
\* withOsc the operating system commands too.
RECURSIVE EscapeSeqs(_, _, _)
EscapeSeqs(s, i, withOsc) ==
    IF i > Len(s) THEN << >>
    ELSE IF SeqEnd(s, i, withOsc) > 0
    THEN <<SubSeq(s, i, SeqEnd(s, i, withOsc))>>
             \o EscapeSeqs(s, SeqEnd(s, i, withOsc) + 1, withOsc)
    ELSE EscapeSeqs(s, i + 1, withOsc)

\* s without its control sequences.
RECURSIVE StripCsi(_)
StripCsi(s) ==
    IF s = << >> THEN << >>
    ELSE IF CsiEnd(s, 1) > 0 THEN StripCsi(From(s, CsiEnd(s, 1) + 1))
    ELSE <<Head(s)>> \o StripCsi(Tail(s))

\* preprocessText that strips the ANSI control sequences first, which
\* the source's comment (lines 39-41) rules out.
preprocessTextStripAnsi(text) ==
    LET named   == ReplaceNamed(StripCsi(text), 1)
        numeric == DecodeRefs(named, <<"&", "#">>, Digits, 10)
        hex     == DecodeRefs(numeric, <<"&", "#", "x">>, HexDigits, 16)
    IN  ReplaceItalic(hex)

preprocessText(text) ==
    LET named   == ReplaceNamed(text, 1)
        numeric == DecodeRefs(named, <<"&", "#">>, Digits, 10)
        hex     == DecodeRefs(numeric, <<"&", "#", "x">>, HexDigits, 16)
    IN  ReplaceItalic(hex)

-----------------------------------------------------------------------------
(* marked.lexer(this.buffer) with { gfm: true, breaks: true }                *)
(* (src/src/parser/streaming-parser.ts:16-19 and :76).  The lexer is the     *)
(* marked library.  Its block rules are modelled for blank lines, ATX        *)
(* headings, backtick fences, block quotes and paragraphs, its inline rules  *)
(* for code spans, * emphasis, line breaks and text: the constructs the      *)
(* texts of Docs can form.  Lists, thematic breaks, tables, HTML, setext     *)
(* headings, indented code, links, _ emphasis, ~~ and escapes are outside    *)
(* the model, and no text of Docs forms one.  A token of the lexer is a      *)
(* record [type, raw, text, lang, depth, tokens].                            *)

MTok(type, raw, text, lang, depth, toks) ==
    [type |-> type, raw |-> raw, text |-> text, lang |-> lang,
     depth |-> depth, tokens |-> toks]

\* The nesting the lexer's recursion can take before the engine's call
\* stack is exhausted (RangeError), scaled down to the model.
StackLimit == 2

LexOk(toks) == [ok |-> TRUE, tokens |-> toks]
LexThrown == [ok |-> FALSE, tokens |-> << >>]
LexCons(tok, r) == IF r.ok THEN LexOk(<<tok>> \o r.tokens) ELSE r

\* The position of the line break ending the line that starts at p
\* (Len(s) + 1 when the line is the last one).
LineEnd(s, p) == IndexOf(s, NL, p)

\* block.newline: the line at p holds nothing but spaces.
IsBlankLine(s, p) ==
    RunLen(s, " ", p) = LineEnd(s, p) - p

\* block.heading: ^ {0,3}(#{1,6})(?=\s|$)
HeadingDepthAt(s, p) ==
    LET ind == RunLen(s, " ", p)
        h   == RunLen(s, "#", p + ind)
    IN  IF ind <= 3 /\ h >= 1 /\ h <= 6
           /\ (p + ind + h > Len(s) \/ IsSpace(s[p + ind + h]))
        THEN h ELSE 0

\* block.blockquote: ^ {0,3}>
IsQuoteLine(s, p) ==
    LET ind == RunLen(s, " ", p)
    IN  ind <= 3 /\ p + ind <= Len(s) /\ s[p + ind] = ">"

\* block.fences, the opening line: ^ {0,3}(`{3,}(?=[^`\n]*(?:\n|$)))
\* The length of the opening run, 0 when the line opens no fence.
FenceOpenAt(s, p) ==
    LET ind == RunLen(s, " ", p)
        n   == RunLen(s, Backtick, p + ind)
        e   == LineEnd(s, p)
    IN  IF ind <= 3 /\ n >= 3 /\ IndexOf(s, Backtick, p + ind + n) >= e
        THEN n ELSE 0

\* block.fences, the closing line:  {0,3}\1[~`]* *(?=\n|$)
IsFenceCloseLine(s, p, n) ==
    LET ind == RunLen(s, " ", p)
        m   == RunLen(s, Backtick, p + ind)
        k   == ClassRun(s, {Backtick, "~"}, p + ind + m)
        sp  == RunLen(s, " ", p + ind + m + k)
    IN  ind <= 3 /\ m >= n /\ p + ind + m + k + sp = LineEnd(s, p)

\* The start of the first closing line at or after line start p, 0 when
\* the fence is not closed.
RECURSIVE FindFenceClose(_, _, _)
FindFenceClose(s, p, n) ==
    IF p > Len(s) THEN 0
    ELSE IF IsFenceCloseLine(s, p, n) THEN p
    ELSE FindFenceClose(s, LineEnd(s, p) + 1, n)

\* What interrupts a paragraph at line start p (block.paragraph's
\* lookahead): a heading, a block quote, a fence whose opening line is
\* ended by a line break, a line of spaces ended by a line break.
InterruptsParagraph(s, p) ==
    \/ HeadingDepthAt(s, p) > 0
    \/ IsQuoteLine(s, p)
    \/ FenceOpenAt(s, p) > 0 /\ LineEnd(s, p) <= Len(s)
    \/ IsBlankLine(s, p) /\ LineEnd(s, p) <= Len(s)

\* The position after the last character of the paragraph whose current
\* line starts at p.
RECURSIVE ParagraphEnd(_, _)
ParagraphEnd(s, p) ==
    LET e == LineEnd(s, p)
    IN  IF e >= Len(s) THEN e
        ELSE IF s[e + 1] = NL \/ InterruptsParagraph(s, e + 1) THEN e
        ELSE ParagraphEnd(s, e + 1)

\* The position after the run of line breaks that starts at p.
SkipNewlines(s, p) == p + RunLen(s, NL, p)

\* rtrim(text, '#')
RECURSIVE StripTrailingHashes(_)
StripTrailingHashes(s) ==
    IF s # << >> /\ Last(s) = "#" THEN StripTrailingHashes(SubSeq(s, 1, Len(s) - 1))
    ELSE s

\* Tokenizer.heading: the text of the heading line.
HeadingText(line) ==
    LET text    == Trim(line)
        trimmed == StripTrailingHashes(text)
    IN  IF text # << >> /\ Last(text) = "#"
           /\ (trimmed = << >> \/ Last(trimmed) = " ")
        THEN Trim(trimmed) ELSE text

\* Tokenizer.blockquote: the text of the quote with one level of > removed
\* from each of its lines (^ *>[ \t]?).
RECURSIVE QuoteText(_, _, _)
QuoteText(s, p, stop) ==
    IF p >= stop THEN << >>
    ELSE LET ind == RunLen(s, " ", p)
             b   == p + ind + 1
             c   == IF b <= Len(s) /\ s[b] \in {" ", "\t"} THEN b + 1 ELSE b
             e   == LineEnd(s, p)
         IN  SubSeq(s, c, IF e <= Len(s) /\ e + 1 < stop THEN e ELSE e - 1)
                 \o QuoteText(s, e + 1, stop)

\* The position after the block quote that starts at line start p: its
\* consecutive > lines.
RECURSIVE QuoteEnd(_, _)
QuoteEnd(s, p) ==
    IF p > Len(s) \/ ~IsQuoteLine(s, p) THEN p
    ELSE QuoteEnd(s, LineEnd(s, p) + 1)

\* Tokenizer.codespan: ^(`+)([^`]|[^`][\s\S]*?[^`])\1(?!`) at position i.
\* The start of the closing run, a maximal run of exactly n backticks at or
\* after position p, 0 when there is none.
RECURSIVE FindCodespanClose(_, _, _)
FindCodespanClose(s, p, n) ==
    LET b == IndexOf(s, Backtick, p)
        m == RunLen(s, Backtick, b)
    IN  IF b > Len(s) THEN 0
        ELSE IF m = n THEN b
        ELSE FindCodespanClose(s, b + m, n)

\* Tokenizer.codespan: the text of the span (line breaks become spaces, one
\* space is stripped from both ends when both are there and the text is not
\* blank).
CodespanText(content) ==
    LET text == [k \in 1..Len(content) |-> IF content[k] = NL THEN " " ELSE content[k]]
    IN  IF (\E k \in 1..Len(text) : text[k] # " ")
           /\ Head(text) = " " /\ Last(text) = " "
        THEN SubSeq(text, 2, Len(text) - 1) ELSE text

\* inline.emStrongRDelimAst: the alternative (1 to 6) that matches the run
\* of * between the characters a and b (b = "" at the end of the text),
\* 0 when none does.
\*   1: punct *+ (space|end), 2: other *+ (punct|space|end): right only
\*   3: (punct|space) *+ other, 4: space *+ punct:           left only
\*   5: punct *+ punct, 6: other *+ other:                   either
DelimGroup(a, b) ==
    LET aP == IsPunct(a)
        aS == IsSpace(a)
        bE == b = ""
        bS == ~bE /\ IsSpace(b)
        bP == ~bE /\ IsPunct(b)
        bO == ~bE /\ ~bS /\ ~bP
    IN  IF aP /\ (bS \/ bE) THEN 1
        ELSE IF ~aP /\ ~aS /\ (bP \/ bS \/ bE) THEN 2
        ELSE IF (aP \/ aS) /\ bO THEN 3
        ELSE IF aS /\ bP THEN 4
        ELSE IF aP /\ bP THEN 5
        ELSE IF ~aP /\ ~aS /\ bO THEN 6
        ELSE 0

NoInline == [found |-> FALSE, type |-> "", len |-> 0, text |-> << >>]

Min(a, b) == IF a < b THEN a ELSE b

\* Tokenizer.emStrong, the scan for the closing delimiter: i is the start of
\* the opening run of l stars, q the position the scan has reached.
RECURSIVE ScanRDelim(_, _, _, _, _, _)
ScanRDelim(s, i, l, q, delimTotal, midDelimTotal) ==
    IF q >= Len(s) THEN NoInline
    ELSE IF s[q] = "*" THEN ScanRDelim(s, i, l, q + 1, delimTotal, midDelimTotal)
    ELSE IF s[q + 1] # "*"
         THEN \* [^*]+(?=[^*]): on to the last character before the next run
              ScanRDelim(s, i, l, IndexOf(s, "*", q) - 1, delimTotal, midDelimTotal)
    ELSE LET m    == RunLen(s, "*", q + 1)
             next == q + 1 + m
             g    == DelimGroup(s[q], IF next > Len(s) THEN "" ELSE s[next])
             left == delimTotal - m
             r    == Min(m, m + left + midDelimTotal)
             raw  == SubSeq(s, i, q + r)
         IN  IF g = 0 THEN ScanRDelim(s, i, l, next, delimTotal, midDelimTotal)
             ELSE IF g \in {3, 4}
                  THEN ScanRDelim(s, i, l, next, delimTotal + m, midDelimTotal)
             ELSE IF g \in {5, 6} /\ l % 3 # 0 /\ (l + m) % 3 = 0
                  THEN ScanRDelim(s, i, l, next, delimTotal, midDelimTotal + m)
             ELSE IF left > 0 THEN ScanRDelim(s, i, l, next, left, midDelimTotal)
             ELSE IF Min(l, r) % 2 = 1
                  THEN [found |-> TRUE, type |-> "em", len |-> Len(raw),
                        text |-> SubSeq(raw, 2, Len(raw) - 1)]
             ELSE [found |-> TRUE, type |-> "strong", len |-> Len(raw),
                   text |-> SubSeq(raw, 3, Len(raw) - 2)]

\* Tokenizer.emStrong at position i, where a run of * starts; prevChar is
\* the last character of the text token before it ("" when none).
EmStrong(s, i, prevChar) ==
    LET l  == RunLen(s, "*", i)
        nc == i + l
    IN  IF nc > Len(s) \/ IsSpace(s[nc]) THEN NoInline
        ELSE IF IsPunct(s[nc]) /\ prevChar # "" /\ ~IsPunct(prevChar) THEN NoInline
        ELSE ScanRDelim(s, i, l, nc, l, 0)

\* Tokenizer.codespan at position i, where a run of backticks starts.
Codespan(s, i) ==
    LET n == RunLen(s, Backtick, i)
        j == FindCodespanClose(s, i + n, n)
    IN  IF j = 0 THEN NoInline
        ELSE [found |-> TRUE, type |-> "codespan", len |-> j + n - i,
              text |-> CodespanText(SubSeq(s, i + n, j - 1))]

\* Tokenizer.br with breaks: ^( *)\n(?!\s*$) at position i.
LineBreak(s, i) ==
    LET sp == RunLen(s, " ", i)
        nl == i + sp
    IN  IF nl <= Len(s) /\ s[nl] = NL /\ (\E k \in (nl + 1)..Len(s) : ~IsSpace(s[k]))
        THEN [found |-> TRUE, type |-> "br", len |-> sp + 1, text |-> << >>]
        ELSE NoInline

\* Lexer.inlineTokens: a text token is merged into a text token before it.
PushText(acc, cs) ==
    IF acc # << >> /\ Last(acc).type = "text"
    THEN [acc EXCEPT ![Len(acc)] =
             MTok("text", Last(acc).raw \o cs, Last(acc).text \o cs, << >>, 0, << >>)]
    ELSE Append(acc, MTok("text", cs, cs, << >>, 0, << >>))

\* Lexer.inlineTokens from position i on.
RECURSIVE InlineFrom(_, _, _, _)
InlineFrom(s, i, prevChar, acc) ==
    IF i > Len(s) THEN acc
    ELSE LET c == s[i]
             t == IF c = "*" THEN EmStrong(s, i, prevChar)
                  ELSE IF c = Backtick THEN Codespan(s, i)
                  ELSE IF c \in {" ", NL} THEN LineBreak(s, i)
                  ELSE NoInline
             \* inlineText takes a whole run of backticks, one character otherwise
             n == IF c = Backtick THEN RunLen(s, Backtick, i) ELSE 1
         IN  IF t.found
             THEN InlineFrom(s, i + t.len, "",
                      Append(acc, MTok(t.type, SubSeq(s, i, i + t.len - 1), t.text,
                                       << >>, 0, << >>)))
             ELSE InlineFrom(s, i + n, c, PushText(acc, SubSeq(s, i, i + n - 1)))

InlineTokens(text) == InlineFrom(text, 1, "", << >>)

\* Lexer.blockTokens: the block tokens of s, inside nest block quotes.
RECURSIVE BlockTokens(_, _)
BlockTokens(s, nest) ==
    IF s = << >> THEN LexOk(<< >>)
    ELSE IF IsBlankLine(s, 1)
         THEN LET e == LineEnd(s, 1)
              IN  LexCons(MTok("space", SubSeq(s, 1, Min(e, Len(s))), << >>, << >>, 0, << >>),
                          BlockTokens(From(s, e + 1), nest))
    ELSE IF FenceOpenAt(s, 1) > 0
         THEN LET n     == FenceOpenAt(s, 1)
                  ind   == RunLen(s, " ", 1)
                  e     == LineEnd(s, 1)
                  close == FindFenceClose(s, e + 1, n)
                  stop  == IF close > 0 THEN LineEnd(s, close) ELSE Len(s) + 1
                  last  == IF close > 0 THEN close - 2
                           ELSE IF Last(s) = NL THEN Len(s) - 1 ELSE Len(s)
                  text  == IF last >= e + 1 THEN SubSeq(s, e + 1, last) ELSE << >>
                  lang  == Trim(SubSeq(s, ind + n + 1, e - 1))
              IN  LexCons(MTok("code", SubSeq(s, 1, stop - 1), text, lang, 0, << >>),
                          BlockTokens(From(s, stop), nest))
    ELSE IF HeadingDepthAt(s, 1) > 0
         THEN LET h   == HeadingDepthAt(s, 1)
                  ind == RunLen(s, " ", 1)
                  e   == LineEnd(s, 1)
                  nx  == SkipNewlines(s, e)
              IN  LexCons(MTok("heading", SubSeq(s, 1, nx - 1),
                               HeadingText(SubSeq(s, ind + h + 1, e - 1)), << >>, h, << >>),
                          BlockTokens(From(s, nx), nest))
    ELSE IF IsQuoteLine(s, 1)
         THEN LET stop  == QuoteEnd(s, 1)
                  inner == IF nest + 1 > StackLimit THEN LexThrown
                           ELSE BlockTokens(QuoteText(s, 1, stop), nest + 1)
              IN  IF ~inner.ok THEN LexThrown
                  ELSE LexCons(MTok("blockquote", SubSeq(s, 1, Min(stop - 1, Len(s))),
                                    << >>, << >>, 0, inner.tokens),
                               BlockTokens(From(s, stop), nest))
    ELSE LET stop == ParagraphEnd(s, 1)
             text == SubSeq(s, 1, stop - 1)
         IN  LexCons(MTok("paragraph", text, text, << >>, 0, InlineTokens(text)),
                     BlockTokens(From(s, stop), nest))

\* marked.lexer(src): [ok |-> TRUE, tokens |-> ...], or ok = FALSE when the
\* lexer throws.
markedLexer(src) == BlockTokens(src, 0)

-----------------------------------------------------------------------------
(* The parser's own passes (src/src/parser/streaming-parser.ts).  A          *)
(* ParsedToken is a record [type, content, depth, lang, ordered,             *)
(* incomplete, raw]; a field the source leaves undefined is 0, << >> or      *)
(* FALSE.                                                                    *)

PTok(type, content, depth, lang, ordered, incomplete, raw) ==
    [type |-> type, content |-> content, depth |-> depth, lang |-> lang,
     ordered |-> ordered, incomplete |-> incomplete, raw |-> raw]

UpperCase ==
    <<"A", "B", "C", "D", "E", "F", "G", "H", "I", "J", "K", "L", "M",
      "N", "O", "P", "Q", "R", "S", "T", "U", "V", "W", "X", "Y", "Z">>
LowerCase ==
    <<"a", "b", "c", "d", "e", "f", "g", "h", "i", "j", "k", "l", "m",
      "n", "o", "p", "q", "r", "s", "t", "u", "v", "w", "x", "y", "z">>

\* String.prototype.toLowerCase()
ToLowerCase(s) ==
    [k \in 1..Len(s) |->
        IF \E u \in 1..26 : UpperCase[u] = s[k]
        THEN LowerCase[CHOOSE u \in 1..26 : UpperCase[u] = s[k]]
        ELSE s[k]]

\* mermaidKeywords, lower-cased as the comparison lower-cases them.
mermaidKeywords ==
    {<<"g", "r", "a", "p", "h">>,
     <<"f", "l", "o", "w", "c", "h", "a", "r", "t">>,
     <<"s", "e", "q", "u", "e", "n", "c", "e", "d", "i", "a", "g", "r", "a", "m">>,
     <<"c", "l", "a", "s", "s", "d", "i", "a", "g", "r", "a", "m">>,
     <<"s", "t", "a", "t", "e", "d", "i", "a", "g", "r", "a", "m">>,
     <<"j", "o", "u", "r", "n", "e", "y">>,
     <<"g", "a", "n", "t", "t">>,
     <<"p", "i", "e">>,
     <<"g", "i", "t", "g", "r", "a", "p", "h">>}

Mermaid == <<"m", "e", "r", "m", "a", "i", "d">>
TextLang == <<"t", "e", "x", "t">>

\* a || b on strings: the empty string is falsy.
OrElse(a, b) == IF a # << >> THEN a ELSE b

looksLikeMermaidCode(code) ==
    /\ code # << >>
    /\ \E keyword \in mermaidKeywords : MatchAt(ToLowerCase(Trim(code)), 1, keyword)

\* flattenInlineTokens: the lexer model's em, strong, codespan and text
\* tokens are kept; any other token is descended into when it has children
\* and kept when it has none.
RECURSIVE flattenInlineTokens(_)
flattenInlineTokens(toks) ==
    IF toks = << >> THEN << >>
    ELSE LET token == Head(toks)
         IN  (IF token.type \in {"em", "strong", "codespan", "link", "del", "text"}
              THEN <<token>>
              ELSE IF token.tokens # << >> THEN flattenInlineTokens(token.tokens)
              ELSE <<token>>)
             \o flattenInlineTokens(Tail(toks))

\* processInlineTokens.  The lexer gives every paragraph at least one inline
\* token, so the branch that re-derives them from the raw text
\* (parseInlineFromText, lines 184-255) is never taken; it is modelled by
\* its outcome for an empty result, the paragraph token itself.
RECURSIVE processInlineTokens(_)
processInlineTokens(toks) ==
    IF toks = << >> THEN << >>
    ELSE LET token == Head(toks)
         IN  (IF token.type = "paragraph" /\ token.tokens # << >>
              THEN flattenInlineTokens(token.tokens)
              ELSE IF token.type = "blockquote" /\ token.tokens # << >>
              THEN processInlineTokens(token.tokens)
              ELSE <<token>>)
             \o processInlineTokens(Tail(toks))

processTokensWithDiagramDetection(toks) ==
    processInlineTokens(
        [k \in 1..Len(toks) |->
            LET token == toks[k]
            IN  IF token.type = "code"
                   /\ (token.lang = Mermaid
                       \/ looksLikeMermaidCode(OrElse(token.text, token.raw)))
                THEN [token EXCEPT !.type = "mermaid",
                                   !.text = OrElse(token.text, token.raw)]
                ELSE token])

\* convertToken; the result is the sequence of tokens it adds (none for
\* null).  The lexer model yields no list, hr, table, link or del token.
RECURSIVE convertTokens(_)
convertToken(token) ==
    CASE token.type = "heading" ->
            <<PTok("heading", token.text, token.depth, << >>, FALSE, FALSE, token.raw)>>
      [] token.type \in {"paragraph", "strong", "em", "text"} ->
            <<PTok(token.type, token.text, 0, << >>, FALSE, FALSE, token.raw)>>
      [] token.type = "codespan" ->
            <<PTok("code", token.text, 0, << >>, FALSE, FALSE, token.raw)>>
      [] token.type = "code" ->
            <<PTok("codeblock", token.text, 0, OrElse(token.lang, TextLang),
                   FALSE, FALSE, token.raw)>>
      [] token.type = "mermaid" ->
            <<PTok("mermaid", OrElse(token.text, token.raw), 0, << >>, FALSE,
                   FALSE, token.raw)>>
      [] token.type = "blockquote" -> convertTokens(token.tokens)
      [] token.type = "space" -> << >>
      [] OTHER ->
            <<PTok("text", OrElse(token.text, token.raw), 0, << >>, FALSE, FALSE,
                   token.raw)>>

convertTokens(markedTokens) ==
    IF markedTokens = << >> THEN << >>
    ELSE convertToken(Head(markedTokens)) \o convertTokens(Tail(markedTokens))

\* The bounded quantifiers of the tail signatures.
MaxStrongTail == 100
MaxEmTail == 100
MaxCodeTail == 500
MaxLinkTail == 200
MaxHeadingTail == 200

\* /open[^excl]{1,max}$/ tested on text.
TailMatch(text, open, excl, max) ==
    \E i \in 1..Len(text) :
        LET first == i + Len(open)
            n     == Len(text) - first + 1
        IN  /\ MatchAt(text, i, open)
            /\ n >= 1 /\ n <= max
            /\ \A k \in first..Len(text) : text[k] \notin excl

TailStrong(text) == TailMatch(text, <<"*", "*">>, {"*", NL}, MaxStrongTail)
TailEm(text) == TailMatch(text, <<"*">>, {"*", NL}, MaxEmTail)
TailCode(text) == TailMatch(text, <<Backtick>>, {Backtick, NL}, MaxCodeTail)
TailLink(text) == TailMatch(text, <<"[">>, {"]", NL}, MaxLinkTail)

\* /^#{1,6}\s[^\n]{1,200}$/ tested on text.
TailHeading(text) ==
    LET h == RunLen(text, "#", 1)
        n == Len(text) - (h + 1)
    IN  /\ h >= 1 /\ h <= 6
        /\ h + 1 <= Len(text) /\ IsSpace(text[h + 1])
        /\ n >= 1 /\ n <= MaxHeadingTail
        /\ \A k \in (h + 2)..Len(text) : text[k] # NL

\* handleIncompleteMarkdown: the token list it leaves in this.tokens.
handleIncompleteMarkdown(toks, buf) ==
    IF toks = << >> THEN toks
    ELSE IF (TailStrong(buf) \/ TailEm(buf) \/ TailCode(buf) \/ TailLink(buf)
                \/ TailHeading(buf))
            /\ Last(toks).content # << >>
         THEN [toks EXCEPT ![Len(toks)].incomplete = TRUE]
    ELSE toks

\* parseInlineFormatting
parseInlineFormatting(text) ==
    PTok("text", text, 0, << >>, FALSE,
         TailStrong(text) \/ TailEm(text) \/ TailCode(text), << >>)

\* line.includes('\n')
IncludesNewline(line) == \E k \in 1..Len(line) : line[k] = NL

\* parseIncompleteLine
parseIncompleteLine(line) ==
    LET h  == RunLen(line, "#", 1)
        d  == ClassRun(line, Digits, 1)
        ws == ClassRun(line, {" ", NL, "\t"}, 2)
    IN  IF h >= 1 /\ h <= 6 /\ h + 1 <= Len(line) /\ IsSpace(line[h + 1])
        THEN PTok("heading", From(line, h + 2), h, << >>, FALSE,
                  ~IncludesNewline(line), << >>)
        ELSE IF MatchAt(line, 1, <<Backtick, Backtick, Backtick>>)
        THEN PTok("codeblock", << >>, 0, OrElse(Trim(From(line, 4)), TextLang),
                  FALSE, TRUE, << >>)
        ELSE IF MatchAt(line, 1, <<">">>)
        THEN PTok("blockquote", From(line, 2 + ws), 0, << >>, FALSE,
                  ~IncludesNewline(line), << >>)
        ELSE IF \/ (Len(line) >= 2 /\ line[1] \in {"-", "*", "+"} /\ IsSpace(line[2]))
                \/ (d >= 1 /\ MatchAt(line, d + 1, <<".">>)
                      /\ d + 2 <= Len(line) /\ IsSpace(line[d + 2]))
        THEN PTok("listitem", From(line, 2 + ws), 0, << >>,
                  d >= 1 /\ MatchAt(line, d + 1, <<".">>),
                  ~IncludesNewline(line), << >>)
        ELSE parseInlineFormatting(line)

\* parsePartial
RECURSIVE parseLines(_)
parseLines(lines) ==
    IF lines = << >> THEN << >>
    ELSE (IF Trim(Head(lines)) = << >> THEN << >>
          ELSE <<parseIncompleteLine(Head(lines))>>)
         \o parseLines(Tail(lines))

parsePartial(buf) == parseLines(SplitLines(buf))

-----------------------------------------------------------------------------
(* parse() and the session's operations.                                     *)

\* parse() with the try block's catch clause removed: a failure of the lexer
\* leaves the call by an exception, with this.tokens as it was.
parseNoCatch(buf, incompleteOn, old) ==
    LET lexed     == markedLexer(buf)
        converted == convertTokens(processTokensWithDiagramDetection(lexed.tokens))
        marked    == IF incompleteOn THEN handleIncompleteMarkdown(converted, buf)
                     ELSE converted
    IN  IF lexed.ok
        THEN [threw |-> FALSE, value |-> marked, tokens |-> marked, path |-> "primary"]
        ELSE [threw |-> TRUE, value |-> << >>, tokens |-> old, path |-> "none"]

\* parse(): what the call does with buffer buf when this.tokens is old:
\* whether it throws, the value it returns, this.tokens afterwards, and the
\* branch it took.  The try block's catch is the fall back to parsePartial.
parse(buf, incompleteOn, old) ==
    LET lexed     == markedLexer(buf)
        converted == convertTokens(processTokensWithDiagramDetection(lexed.tokens))
        marked    == IF incompleteOn THEN handleIncompleteMarkdown(converted, buf)
                     ELSE converted
    IN  IF lexed.ok
        THEN [threw |-> FALSE, value |-> marked, tokens |-> marked, path |-> "primary"]
        ELSE [threw |-> FALSE, value |-> parsePartial(buf), tokens |-> old,
              path |-> "fallback"]

\* addChunk appending the chunk as it came, without preprocessText.
AppendChunkRaw(buf, chunk) == buf \o chunk

\* addChunk, lines 27-28: this.buffer += this.preprocessText(chunk)
AppendChunk(buf, chunk) == buf \o preprocessText(chunk)

-----------------------------------------------------------------------------
(* The texts streamed to a session.  A session is fed one of them, cut into  *)
(* chunks at arbitrary places.                                               *)

\* More block quote levels than the lexer's recursion can take.
DeepQuote == [k \in 1..(StackLimit + 1) |-> ">"]

DocHello ==
    <<"#", " ", "H", "e", "l", "l", "o", NL, NL, "T", "h", "i", "s", " ",
      "i", "s", " ", "*", "*", "b", "o", "l", "d", "*", "*", " ", "t", "e",
      "x", "t", ".">>
DocSpans == <<Backtick, "c", Backtick, " ", "*", "*", "b", "*", "*">>
DocFence == <<Backtick, Backtick, Backtick, NL, "c", "o", NL, Backtick, Backtick,
      Backtick>>
DocQuote ==
    <<"#", " ", "A", NL, "x", " ", "*", "*", "b", NL>>
        \o DeepQuote \o <<" ", "q", NL, Backtick, Backtick, Backtick>>
DocEntity == <<"a", "&", "#", "6", "5", ";">>

GraphLines ==
    <<NL, "g", "r", "a", "p", "h", " ", "T", "D", NL, Backtick, Backtick, Backtick>>
DocGraph == <<Backtick, Backtick, Backtick>> \o GraphLines
DocPython ==
    <<Backtick, Backtick, Backtick, "p", "y", "t", "h", "o", "n">> \o GraphLines

\* A reference to 1114177, past the last code point 1114111 (0x10FFFF).
DocBadRef == <<"&", "#", "1", "1", "1", "4", "1", "7", "7", ";">>

\* Coloured text around an entity, and a window title holding an entity.
DocAnsi ==
    <<"a", Esc, "[", "3", "1", "m", "&", "a", "m", "p", ";", Esc, "[", "0", "m">>
DocOsc == <<Esc, "]", "0", ";", "&", "l", "t", ";", Bel>>

Docs ==
    {DocHello, DocSpans, DocFence, DocQuote, DocEntity, DocGraph, DocPython,
     DocBadRef, DocAnsi, DocOsc}

\* The longest chunk, and the most chunks fed between two clears.
MaxChunkLen == 16
MaxChunks == 3

\* The chunks that can follow the text fed so far.
NextChunks(fed) ==
    {SubSeq(d, Len(fed) + 1, Min(Len(fed) + n, Len(d))) :
        d \in {x \in Docs : MatchAt(x, 1, fed)},
        n \in 1..MaxChunkLen} \ {<< >>}

Init ==
    /\ buffer = << >>
    /\ tokens = << >>
    /\ parseIncomplete \in BOOLEAN
    /\ chunks = << >>
    /\ returned = << >>
    /\ outcome = "none"
    /\ path = "none"
    /\ TableIdle
    /\ StreamttyIdle
    /\ SanitizerIdle
    /\ AdapterIdle
    /\ ProtocolIdle
    /\ RenderIdle
    /\ StreamRendererIdle
    /\ SafeOpIdle
    /\ EmitterIdle

\* addChunk(chunk)
AddChunk(chunk) ==
    /\ Len(chunks) < MaxChunks
    /\ \E b \in {AppendChunk(buffer, chunk)} :
       \E r \in {parse(b, parseIncomplete, tokens)} :
        /\ buffer' = b
        /\ tokens' = r.tokens
        /\ returned' = IF r.threw THEN << >> ELSE r.value
        /\ outcome' = IF r.threw THEN "threw" ELSE "returned"
        /\ path' = r.path
        /\ chunks' = Append(chunks, chunk)
        /\ UNCHANGED parseIncomplete

\* clear()
Clear ==
    /\ buffer' = << >>
    /\ tokens' = << >>
    /\ chunks' = << >>
    /\ returned' = << >>
    /\ outcome' = "cleared"
    /\ path' = "none"
    /\ UNCHANGED parseIncomplete

ParserNext ==
    \/ (\E chunk \in NextChunks(Concat(chunks)) : AddChunk(chunk))
            /\ UNCHANGED <<tableVars, streamttyVars, sanitizerVars, adapterVars, protocolVars, renderVars, streamRendererVars, safeOpVars, emitterVars>>
    \/ Clear /\ UNCHANGED <<tableVars, streamttyVars, sanitizerVars, adapterVars, protocolVars, renderVars, streamRendererVars, safeOpVars, emitterVars>>


-----------------------------------------------------------------------------
(* Tables: the lexer's table token, convertTableTokenToMarkdown             *)
(* (src/src/parser/streaming-parser.ts:144-179) and parseMarkdownTable      *)
(* (src/src/utils/enhanced-table-renderer.ts:196-259).                      *)

\* Whether the | at position i of s is escaped: an odd number of \ before it.
RECURSIVE BackslashesBefore(_, _)
BackslashesBefore(s, i) ==
    IF i >= 2 /\ s[i - 1] = "\\" THEN 1 + BackslashesBefore(s, i - 1) ELSE 0

IsEscapedAt(s, i) == BackslashesBefore(s, i) % 2 = 1

\* s cut at its | characters; with onlyUnescaped, at the unescaped ones.
RECURSIVE SplitPipes(_, _, _, _)
SplitPipes(s, i, cur, onlyUnescaped) ==
    IF i > Len(s) THEN <<cur>>
    ELSE IF s[i] = "|" /\ ~(onlyUnescaped /\ IsEscapedAt(s, i))
    THEN <<cur>> \o SplitPipes(s, i + 1, << >>, onlyUnescaped)
    ELSE SplitPipes(s, i + 1, Append(cur, s[i]), onlyUnescaped)

\* An empty first cell and an empty last cell are removed.
DropOuterEmpty(cells) ==
    LET a == IF cells # << >> /\ Trim(Head(cells)) = << >> THEN Tail(cells) ELSE cells
    IN  IF a # << >> /\ Trim(Last(a)) = << >> THEN SubSeq(a, 1, Len(a) - 1) ELSE a

\* marked's splitCells(tableRow, count): the cells between unescaped pipes,
\* cut or padded to count cells when count > 0, trimmed, \| unescaped.
splitCells(tableRow, count) ==
    LET cells == DropOuterEmpty(SplitPipes(tableRow, 1, << >>, TRUE))
        sized == IF count = 0 THEN cells
                 ELSE [k \in 1..count |-> IF k <= Len(cells) THEN cells[k] ELSE << >>]
    IN  [k \in 1..Len(sized) |-> ReplaceAll(Trim(sized[k]), <<"\\", "|">>, <<"|">>)]

\* Whether a delimiter row cell is :?-+:?
IsDelimiterCell(c) ==
    LET a == IF c # << >> /\ Head(c) = ":" THEN Tail(c) ELSE c
        b == IF a # << >> /\ Last(a) = ":" THEN SubSeq(a, 1, Len(a) - 1) ELSE a
    IN  b # << >> /\ \A k \in 1..Len(b) : b[k] = "-"

\* The lexer's table rule on a text that is one table: a header row, a
\* delimiter row with as many cells, and the rows after it.  ok is FALSE
\* when the text is no table.
markedTable(src) ==
    LET lines  == SelectSeq(SplitLines(src), LAMBDA l : Trim(l) # << >>)
        header == splitCells(lines[1], 0)
        delim  == splitCells(lines[2], 0)
    IN  IF Len(lines) >= 2 /\ Len(header) >= 1 /\ Len(delim) = Len(header)
           /\ \A k \in 1..Len(delim) : IsDelimiterCell(delim[k])
        THEN [ok |-> TRUE, raw |-> src,
              header |-> [k \in 1..Len(header) |-> [text |-> header[k]]],
              rows |-> [r \in 1..(Len(lines) - 2) |->
                          LET cells == splitCells(lines[r + 2], Len(header))
                          IN  [k \in 1..Len(cells) |-> [text |-> cells[k]]]]]
        ELSE [ok |-> FALSE, raw |-> src, header |-> << >>, rows |-> << >>]

\* String(cell) of a cell object
ObjectObject ==
    <<"[", "o", "b", "j", "e", "c", "t", " ", "O", "b", "j", "e", "c", "t", "]">>

\* cell.text || cell.content || String(cell)
CellText(cell) == OrElse(cell.text, ObjectObject)

\* cells.join(' | ') between '| ' and ' |'
RECURSIVE JoinCells(_)
JoinCells(cells) ==
    IF cells = << >> THEN << >>
    ELSE IF Len(cells) = 1 THEN Head(cells)
    ELSE Head(cells) \o <<" ", "|", " ">> \o JoinCells(Tail(cells))

TableLine(cells) == <<"|", " ">> \o JoinCells(cells) \o <<" ", "|">>

\* lines.join('\n')
RECURSIVE JoinLines(_)
JoinLines(lines) ==
    IF lines = << >> THEN << >>
    ELSE IF Len(lines) = 1 THEN Head(lines)
    ELSE Head(lines) \o <<NL>> \o JoinLines(Tail(lines))

convertTableTokenToMarkdown(token) ==
    LET headerCells == [k \in 1..Len(token.header) |-> CellText(token.header[k])]
        separator   == [k \in 1..Len(headerCells) |-> <<"-", "-", "-">>]
        rowLines    == [r \in 1..Len(token.rows) |->
                          TableLine([k \in 1..Len(token.rows[r]) |->
                                        CellText(token.rows[r][k])])]
    IN  JoinLines(<<TableLine(headerCells), TableLine(separator)>> \o rowLines)

\* s.replace(/D(.*?)D/g, '$1') for a delimiter D: each pair of delimiters,
\* left to right, is removed.
RECURSIVE StripPairs(_, _)
StripPairs(s, d) ==
    IF s = << >> THEN << >>
    ELSE LET j == IF MatchAt(s, 1, d)
                  THEN CHOOSE x \in (Len(d) + 1)..(Len(s) + 1) :
                          /\ x = Len(s) + 1 \/ MatchAt(s, x, d)
                          /\ \A y \in (Len(d) + 1)..(x - 1) : ~MatchAt(s, y, d)
                  ELSE Len(s) + 1
         IN  IF j <= Len(s)
             THEN SubSeq(s, Len(d) + 1, j - 1) \o StripPairs(From(s, j + Len(d)), d)
             ELSE <<Head(s)>> \o StripPairs(Tail(s), d)

\* The markdown formatting removed from a header cell, and from a row cell.
CleanHeader(c) ==
    Trim(StripPairs(StripPairs(StripPairs(c, <<"*", "*">>), <<"*">>), <<Backtick>>))
CleanCell(c) ==
    Trim(StripPairs(StripPairs(StripPairs(StripPairs(c, <<"*", "*">>), <<"*">>),
                               <<Backtick>>), <<"~", "~">>))

\* line.split('|').map(cell => cell.trim()) without the empty outer cells
PipeCells(line) ==
    LET cells == SplitPipes(line, 1, << >>, FALSE)
    IN  DropOuterEmpty([k \in 1..Len(cells) |-> Trim(cells[k])])

\* parseMarkdownTable(markdown); ok is FALSE for null.
parseMarkdownTable(markdown) ==
    LET lines   == SelectSeq(SplitLines(Trim(markdown)), LAMBDA l : Trim(l) # << >>)
        hs      == PipeCells(lines[1])
        headers == [k \in 1..Len(hs) |-> CleanHeader(hs[k])]
        cellsOf(r) == LET cs == PipeCells(lines[r + 2])
                      IN  [k \in 1..Len(cs) |-> CleanCell(cs[k])]
        all     == [r \in 1..(Len(lines) - 2) |-> cellsOf(r)]
        rows    == SelectSeq(all, LAMBDA cs : Len(cs) = Len(headers))
    IN  IF Len(lines) < 3 THEN NoTable
        ELSE IF headers = << >> THEN NoTable
        ELSE IF rows = << >> THEN NoTable
        ELSE [ok |-> TRUE, headers |-> headers, rows |-> rows]

\* The cells a table of the input is written with: a word, an empty cell,
\* a cell with an escaped pipe.
CellTexts == {<<"a">>, << >>, <<"x", "\\", "|", "y">>}

\* The most columns of a header (a row may have one cell more), and the most
\* rows of a table.
MaxCols == 2
MaxRows == 2

SeqsUpTo(S, n) == UNION {[1..k -> S] : k \in 1..n}

\* The tables fed to the session: a header and at least one row.
TableInputs ==
    [header : SeqsUpTo(CellTexts, MaxCols),
     rows   : SeqsUpTo(SeqsUpTo(CellTexts, MaxCols + 1), MaxRows)]

\* The Markdown text of a table of the input.
TableSource(t) ==
    JoinLines(<<TableLine(t.header),
                TableLine([k \in 1..Len(t.header) |-> <<"-", "-", "-">>])>>
              \o [r \in 1..Len(t.rows) |-> TableLine(t.rows[r])])

TableInit ==
    /\ tableSrc \in TableInputs
    /\ tableContent = << >>
    /\ tableData = NoTable
    /\ tableStage = "source"
    /\ ParserIdle
    /\ StreamttyIdle
    /\ SanitizerIdle
    /\ AdapterIdle
    /\ ProtocolIdle
    /\ RenderIdle
    /\ StreamRendererIdle
    /\ SafeOpIdle
    /\ EmitterIdle

\* addChunk(table text): the content of the table token it returns
\* (convertToken, case 'table').
TableConvert ==
    /\ tableStage = "source"
    /\ \E token \in {markedTable(AppendChunk(<< >>, TableSource(tableSrc)))} :
        /\ token.ok
        /\ tableContent' = convertTableTokenToMarkdown(token)
    /\ tableStage' = "converted"
    /\ UNCHANGED <<tableSrc, tableData>>

\* parseMarkdownTable(token.content)
TableParse ==
    /\ tableStage = "converted"
    /\ tableData' = parseMarkdownTable(tableContent)
    /\ tableStage' = "parsed"
    /\ UNCHANGED <<tableSrc, tableContent>>

TableNext ==
    \/ TableConvert /\ UNCHANGED <<parserVars, streamttyVars, sanitizerVars, adapterVars, protocolVars, renderVars, streamRendererVars, safeOpVars, emitterVars>>
    \/ TableParse /\ UNCHANGED <<parserVars, streamttyVars, sanitizerVars, adapterVars, protocolVars, renderVars, streamRendererVars, safeOpVars, emitterVars>>

-----------------------------------------------------------------------------
(* Streamtty (src/src/index.ts) and BlessedRenderer.render                  *)
(* (src/unnamed/part_009).  The session's parser is the parser above.  The   *)
(* security option is left at its default, so stream() does not sanitize.    *)
(* A child of the container is a record: a box rendered for a block token,   *)
(* a line rendered for a run of inline tokens, or a placeholder.             *)

InlineTypes == {"strong", "em", "code", "link", "del", "text"}

MermaidPlaceholder ==
    <<"[", "M", "e", "r", "m", "a", "i", "d", " ", "D", "i", "a", "g", "r", "a",
      "m", "]", NL>>
TablePlaceholder ==
    <<"[", "T", "a", "b", "l", "e", " ", "R", "e", "n", "d", "e", "r", " ", "E",
      "r", "r", "o", "r", "]", NL>>

BoxOf(token) == [kind |-> "box", of |-> <<token>>, content |-> token.content]
LineOf(line) == [kind |-> "line", of |-> line, content |-> << >>]
PlaceholderOf(token) ==
    [kind |-> "placeholder", of |-> <<token>>,
     content |-> (IF token.type = "table" THEN TablePlaceholder
                  ELSE MermaidPlaceholder) \o token.content]

\* The loop of BlessedRenderer.render from token i on, with the inline
\* tokens gathered so far in line and the children added so far in acc.
\* failAt is the token whose rendering fails (0: none); lineFails says the
\* failing token is in line.  inTry says the failure happens inside the try
\* block of renderTable or renderMermaid.  The result is the children and
\* whether the pass left by an exception.
RECURSIVE RenderFrom(_, _, _, _, _, _, _)
RenderFrom(toks, i, line, lineFails, failAt, inTry, acc) ==
    LET flushed == IF line = << >> THEN acc ELSE Append(acc, LineOf(line))
    IN  IF i > Len(toks)
        THEN IF line # << >> /\ lineFails THEN [threw |-> TRUE, children |-> acc]
             ELSE [threw |-> FALSE, children |-> flushed]
        ELSE IF toks[i].type \in InlineTypes
        THEN RenderFrom(toks, i + 1, Append(line, toks[i]),
                        lineFails \/ i = failAt, failAt, inTry, acc)
        ELSE IF line # << >> /\ lineFails THEN [threw |-> TRUE, children |-> acc]
        ELSE IF i # failAt
        THEN RenderFrom(toks, i + 1, << >>, FALSE, failAt, inTry,
                        Append(flushed, BoxOf(toks[i])))
        ELSE IF inTry /\ toks[i].type \in {"table", "mermaid"}
        THEN RenderFrom(toks, i + 1, << >>, FALSE, failAt, inTry,
                        Append(flushed, PlaceholderOf(toks[i])))
        ELSE [threw |-> TRUE, children |-> flushed]

\* BlessedRenderer.render(tokens): the children are destroyed, then the
\* tokens are rendered in order.
rendererRender(toks, failAt, inTry) ==
    RenderFrom(toks, 1, << >>, FALSE, failAt, inTry, << >>)

\* Streamtty.render(): the renderer's exception is caught and logged.
streamttyRender(toks, failAt, inTry) ==
    [threw |-> FALSE, children |-> rendererRender(toks, failAt, inTry).children]

\* scheduleRender without the pendingUpdate test: every call sets a timer.
scheduleRenderAlways(pending, t) == [pendingUpdate |-> TRUE, timers |-> t + 1]

\* scheduleRender that sets pendingUpdate without setting the timer.
scheduleRenderNoTimer(pending, t) == [pendingUpdate |-> TRUE, timers |-> t]

\* scheduleRender(): nothing when a render is pending, else a timer is set.
scheduleRender(pending, t) ==
    IF pending THEN [pendingUpdate |-> pending, timers |-> t]
    ELSE [pendingUpdate |-> TRUE, timers |-> t + 1]

\* The chunks streamed to a Streamtty instance.
HeadingChunk == <<"#", " ", "A", NL>>
TextChunk == <<"x", NL>>
GraphChunk == DocGraph \o <<NL>>
StreamChunks == {HeadingChunk, TextChunk, GraphChunk}

\* The most chunks streamed to one parser, and the most calls batched into
\* one render.
MaxStreamed == 2

StreamttyInit ==
    /\ buffer = << >> /\ tokens = << >> /\ parseIncomplete = TRUE
    /\ chunks = << >> /\ returned = << >> /\ outcome = "none" /\ path = "none"
    /\ StreamttyIdle
    /\ TableIdle
    /\ SanitizerIdle
    /\ AdapterIdle
    /\ ProtocolIdle
    /\ RenderIdle
    /\ StreamRendererIdle
    /\ SafeOpIdle
    /\ EmitterIdle

\* stream(chunk)
Stream(chunk) ==
    /\ Len(chunks) < MaxStreamed
    /\ AddChunk(chunk)
    /\ stContent' = stContent \o chunk
    /\ stTokens' = returned'
    /\ \E sched \in {scheduleRender(pendingUpdate, timers)} :
        /\ pendingUpdate' = sched.pendingUpdate
        /\ timers' = sched.timers
    /\ batched' = batched + 1
    /\ UNCHANGED <<container, failedAt, renderThrew, wasCleared>>

\* setContent(markdown): a new parser is created and fed the markdown.
SetContent(markdown) ==
    /\ batched < MaxStreamed
    /\ \E r \in {parse(AppendChunk(<< >>, markdown), parseIncomplete, << >>)} :
        /\ buffer' = AppendChunk(<< >>, markdown)
        /\ tokens' = r.tokens
        /\ returned' = r.value
        /\ path' = r.path
        /\ stTokens' = r.value
    /\ outcome' = "returned"
    /\ chunks' = <<markdown>>
    /\ stContent' = markdown
    /\ \E sched \in {scheduleRender(pendingUpdate, timers)} :
        /\ pendingUpdate' = sched.pendingUpdate
        /\ timers' = sched.timers
    /\ batched' = batched + 1
    /\ wasCleared' = FALSE
    /\ UNCHANGED <<parseIncomplete, container, failedAt, renderThrew>>

\* The setTimeout callback of scheduleRender: this.render(), then
\* pendingUpdate = false.  The rendering of one token may fail.
TimerFires(failAt, inTry) ==
    /\ timers > 0
    /\ \E r \in {streamttyRender(stTokens, failAt, inTry)} :
        /\ container' = r.children
        /\ renderThrew' = r.threw
    /\ failedAt' = failAt
    /\ timers' = timers - 1
    /\ pendingUpdate' = FALSE
    /\ batched' = 0
    /\ UNCHANGED <<parserVars, stContent, stTokens, wasCleared>>

\* clear(): the content and the token list are emptied; the parser and the
\* children of the container are left as they are, a pending timer stays.
StreamttyClear ==
    /\ stContent' = << >>
    /\ stTokens' = << >>
    /\ wasCleared' = TRUE
    /\ UNCHANGED <<parserVars, pendingUpdate, timers, container, failedAt,
                   renderThrew, batched>>

StreamttyNext ==
    \/ (\E chunk \in StreamChunks : Stream(chunk)) /\ UNCHANGED <<tableVars, sanitizerVars, adapterVars, protocolVars, renderVars, streamRendererVars, safeOpVars, emitterVars>>
    \/ (\E markdown \in StreamChunks : SetContent(markdown)) /\ UNCHANGED <<tableVars, sanitizerVars, adapterVars, protocolVars, renderVars, streamRendererVars, safeOpVars, emitterVars>>
    \/ (\E failAt \in 0..Len(stTokens), inTry \in BOOLEAN : TimerFires(failAt, inTry))
            /\ UNCHANGED <<tableVars, sanitizerVars, adapterVars, protocolVars, renderVars, streamRendererVars, safeOpVars, emitterVars>>
    \/ StreamttyClear /\ UNCHANGED <<tableVars, sanitizerVars, adapterVars, protocolVars, renderVars, streamRendererVars, safeOpVars, emitterVars>>

-----------------------------------------------------------------------------
(* sanitizeForTerminal (src/src/security/ansi-sanitizer.ts:69-152) with its  *)
(* default options: stripAnsi false, maxLength 1000000, allowUnicode true,   *)
(* stripControlChars true.  The inputs of the model are far shorter than     *)
(* maxLength, so the truncation of lines 84-87 never applies.                *)
Nul == "U+0"

\* The last position of a match of ESC [ cls* final that starts at
\* position i, 0 when none starts there.
CsiMatch(s, i, cls, finals) ==
    LET j == i + 2 + ClassRun(s, cls, i + 2)
    IN  IF MatchAt(s, i, <<Esc, "[">>) /\ j <= Len(s) /\ s[j] \in finals
        THEN j ELSE 0

\* /\x1b\]\d*;[^\x07]*\x07/ at position i.
OscBelMatch(s, i) ==
    LET j == i + 2 + ClassRun(s, Digits, i + 2)
        k == IndexOf(s, Bel, j + 1)
    IN  IF MatchAt(s, i, <<Esc, "]">>) /\ MatchAt(s, j, <<";">>) /\ k <= Len(s)
        THEN k ELSE 0

\* /\x1b\]\d*;[^\x1b]*(?:\x1b\\|\x1b\])/ at position i.
OscAltMatch(s, i) ==
    LET j == i + 2 + ClassRun(s, Digits, i + 2)
        k == IndexOf(s, Esc, j + 1)
    IN  IF /\ MatchAt(s, i, <<Esc, "]">>) /\ MatchAt(s, j, <<";">>)
           /\ k + 1 <= Len(s) /\ s[k + 1] \in {"\\", "]"}
        THEN k + 1 ELSE 0

ModeParams == Digits \cup {"?", ";"}

Csi(cls, finals) == [kind |-> "csi", cls |-> cls, finals |-> finals]

DANGEROUS_ANSI_PATTERNS ==
    << [kind |-> "oscBel"], [kind |-> "oscAlt"],
       Csi(ModeParams, {"s", "S"}), Csi(ModeParams, {"A", "B"}),
       Csi({}, {"s"}), Csi({}, {"u"}), Csi({}, {"H"}), Csi({}, {"J"}),
       [kind |-> "nul"],
       Csi(ModeParams, {"h"}), Csi(ModeParams, {"l"}) >>

\* The last position of the match of pattern p at position i, 0 for none.
PatternEnd(s, i, p) ==
    CASE p.kind = "oscBel" -> OscBelMatch(s, i)
      [] p.kind = "oscAlt" -> OscAltMatch(s, i)
      [] p.kind = "nul"    -> IF MatchAt(s, i, <<Nul>>) THEN i ELSE 0
      [] p.kind = "csi"    -> CsiMatch(s, i, p.cls, p.finals)

\* result.replace(pattern, ''): every match removed, left to right.
RECURSIVE RemovePattern(_, _, _)
RemovePattern(s, i, p) ==
    IF i > Len(s) THEN << >>
    ELSE IF PatternEnd(s, i, p) > 0 THEN RemovePattern(s, PatternEnd(s, i, p) + 1, p)
    ELSE <<s[i]>> \o RemovePattern(s, i + 1, p)

\* The loop of lines 90-92 from pattern k on.
RECURSIVE StripDangerous(_, _)
StripDangerous(s, k) ==
    IF k > Len(DANGEROUS_ANSI_PATTERNS) THEN s
    ELSE StripDangerous(RemovePattern(s, 1, DANGEROUS_ANSI_PATTERNS[k]), k + 1)

\* \d{1,3}(?:;\d{1,3})* matching the whole of ps.
RECURSIVE IsSgrParams(_)
IsSgrParams(ps) ==
    LET r == ClassRun(ps, Digits, 1)
    IN  /\ r \in 1..3
        /\ \/ r = Len(ps)
           \/ MatchAt(ps, r + 1, <<";">>) /\ IsSgrParams(From(ps, r + 2))

\* Whether a match of /\x1b\[[0-9;]*[a-zA-Z]/ matches one of
\* SAFE_ANSI_PATTERNS from its first to its last character.
IsSafeCode(code) ==
    \/ Last(code) = "m" /\ IsSgrParams(SubSeq(code, 3, Len(code) - 1))
    \/ code = <<Esc, "[", "2", "K">>
    \/ code = <<Esc, "[", "0", "J">>

\* Lines 100-129: the matches of /\x1b\[[0-9;]*[a-zA-Z]/g that are not safe
\* are removed.
RECURSIVE RemoveUnsafe(_, _)
RemoveUnsafe(s, i) ==
    IF i > Len(s) THEN << >>
    ELSE LET j == CsiMatch(s, i, Digits \cup {";"}, Letters)
         IN  IF j = 0 THEN <<s[i]>> \o RemoveUnsafe(s, i + 1)
             ELSE IF IsSafeCode(SubSeq(s, i, j))
             THEN SubSeq(s, i, j) \o RemoveUnsafe(s, j + 1)
             ELSE RemoveUnsafe(s, j + 1)

\* NUL to BS, SO to ESC, and DEL.
DANGEROUS_CONTROL_CHARS ==
    {CharOfCode(n) : n \in (0..8) \cup (14..27) \cup {127}}

StripChars(s, cs) == SelectSeq(s, LAMBDA c : c \notin cs)

sanitizeForTerminal(input) ==
    LET stripped  == StripDangerous(input, 1)
        validated == RemoveUnsafe(stripped, 1)
        filtered  == StripChars(validated, DANGEROUS_CONTROL_CHARS)
    IN  StripChars(filtered, {Nul})

\* The pieces the inputs are made of: colour codes, an operating system
\* command, cursor movement, save and restore, mode set and reset, erase
\* display, a null byte and plain text.
SgrRed    == <<Esc, "[", "3", "1", "m">>
SgrReset  == <<Esc, "[", "0", "m">>
SgrBold   == <<Esc, "[", "1", ";", "3", "2", "m">>
OscTitle  == <<Esc, "]", "0", ";", "t", Bel>>
CursorUp  == <<Esc, "[", "2", "A">>
CursorSave == <<Esc, "[", "s">>
CursorRestore == <<Esc, "[", "u">>
CursorHome == <<Esc, "[", "H">>
ModeSet   == <<Esc, "[", "?", "2", "5", "h">>
ModeReset == <<Esc, "[", "?", "2", "5", "l">>
EraseDisplay == <<Esc, "[", "J">>
Pieces ==
    {SgrRed, SgrReset, SgrBold, OscTitle, CursorUp, CursorSave, CursorRestore,
     CursorHome, ModeSet, ModeReset, EraseDisplay, <<Nul>>, <<"a">>}

MaxPieces == 2

SanitizerInputs == {Concat(ps) : ps \in SeqsUpTo(Pieces, MaxPieces)}

SanitizerInit ==
    /\ SanitizerIdle
    /\ ParserIdle
    /\ TableIdle
    /\ StreamttyIdle
    /\ AdapterIdle
    /\ ProtocolIdle
    /\ RenderIdle
    /\ StreamRendererIdle
    /\ SafeOpIdle
    /\ EmitterIdle

Sanitize(input) ==
    /\ sanInput' = input
    /\ sanResult' = sanitizeForTerminal(input)
    /\ sanCalled' = TRUE

SanitizerNext ==
    (\E input \in SanitizerInputs : Sanitize(input))
        /\ UNCHANGED <<parserVars, tableVars, streamttyVars, adapterVars, protocolVars, renderVars, streamRendererVars, safeOpVars, emitterVars>>

-----------------------------------------------------------------------------
(* AISDKStreamAdapter (src/src/ai-sdk-adapter.ts) over a renderer that       *)
(* records the arguments of stream, with StreamProtocol                      *)
(* (src/unnamed/part_011) in front of it.  A JavaScript value is a record    *)
(* with its kind t and, for a string or a number, its value v; an event      *)
(* object holds a value for each of type, content, toolName, toolArgs,       *)
(* toolResult and metadata, undefined for a property it lacks.  A metadata   *)
(* object holds the value of its timestamp.  A tool call that is rendered    *)
(* shows the tool "git" with arguments {}, a tool result "ok".               *)
(* formatToolCalls keeps its default, true.  Times are milliseconds since    *)
(* the epoch, shown in UTC.                                                  *)
Undefined == [t |-> "undefined"]
Null == [t |-> "null"]
Str(s) == [t |-> "string", v |-> s]
Num(n) == [t |-> "number", v |-> n]
EmptyObject == [t |-> "object"]

\* typeof x, and whether x is truthy.
TypeOf(x) == IF x.t = "null" THEN "object" ELSE x.t
Truthy(x) ==
    CASE x.t \in {"undefined", "null"} -> FALSE
      [] x.t = "string" -> x.v # << >>
      [] x.t = "number" -> x.v # 0
      [] OTHER -> TRUE

\* `${x}` for a string or undefined.
TemplateText(x) ==
    IF x.t = "string" THEN x.v ELSE <<"u", "n", "d", "e", "f", "i", "n", "e", "d">>

\* An event object and a metadata object.
EventObject(type, content, toolName, toolArgs, toolResult, metadata) ==
    [t |-> "object", type |-> type, content |-> content, toolName |-> toolName,
     toolArgs |-> toolArgs, toolResult |-> toolResult, metadata |-> metadata]
Metadata(timestamp) == [t |-> "object", timestamp |-> timestamp]

VALID_EVENT_TYPES ==
    {"text_delta", "tool_call", "tool_result", "thinking", "start",
     "complete", "error", "reasoning", "step", "status"}

\* The icons, each one character of the output.
Rocket == "U+1F680"
CheckBox == "U+2705"
CrossMark == "U+274C"
CheckMark == "U+2713"
Seedling == "U+1F33F"
Zap == "U+26A1"
ThoughtBalloon == "U+1F4AD"
InfoSign == "U+2139"

\* The characters of a number below 100: as it is, and padded to two digits.
DigitChar(n) == AsciiChars[n + 17]
TwoDigits(n) == <<DigitChar(n \div 10), DigitChar(n % 10)>>
Decimal(n) == IF n < 10 THEN <<DigitChar(n)>> ELSE TwoDigits(n)

\* new Date(ms).toLocaleTimeString() in the two locales of the model: "en-US"
\* writes a 12-hour clock with a day period, "en-GB" a 24-hour clock.
toLocaleTimeString(ms, locale) ==
    LET secs == (ms \div 1000) % 86400
        h    == secs \div 3600
        m    == (secs \div 60) % 60
        sec  == secs % 60
        h12  == IF h % 12 = 0 THEN 12 ELSE h % 12
        tail == <<":">> \o TwoDigits(m) \o <<":">> \o TwoDigits(sec)
    IN  IF locale = "en-US"
        THEN Decimal(h12) \o tail \o <<" ", IF h < 12 THEN "A" ELSE "P", "M">>
        ELSE TwoDigits(h) \o tail

validateToolCallEvent(event) ==
    /\ TypeOf(event.toolName) = "string"
    /\ TypeOf(event.toolArgs) = "object"
    /\ event.toolArgs # Null

validateToolResultEvent(event) == event.toolResult # Undefined

\* validateTextDeltaEvent, validateThinkingEvent and validateErrorEvent.
validateContentEvent(event) == TypeOf(event.content) = "string"

validateStatusEvent(event) ==
    /\ TypeOf(event.content) = "string"
    /\ (~Truthy(event.metadata) \/ TypeOf(event.metadata) = "object")

\* StreamProtocol.validateEvent
validateEvent(event) ==
    IF ~Truthy(event) \/ TypeOf(event) # "object" THEN FALSE
    ELSE IF ~(event.type.t = "string" /\ event.type.v \in VALID_EVENT_TYPES) THEN FALSE
    ELSE CASE event.type.v = "tool_call" -> validateToolCallEvent(event)
           [] event.type.v = "tool_result" -> validateToolResultEvent(event)
           [] event.type.v \in {"text_delta", "thinking", "reasoning", "error"} ->
                  validateContentEvent(event)
           [] event.type.v \in {"status", "step"} -> validateStatusEvent(event)
           [] OTHER -> TRUE

\* StreamProtocol.shouldRenderEvent: options.showThinking !== false decides
\* for a thinking or reasoning event.
shouldRenderEvent(event, showThinking) ==
    IF event.type.v \in {"thinking", "reasoning"} THEN showThinking # FALSE
    ELSE TRUE

\* StreamProtocol.transformEvent: metadata.timestamp is Date.now() unless the
\* event's metadata is an object that holds a timestamp.
transformEvent(event, now) ==
    IF event.metadata.t = "object" /\ event.metadata.timestamp # Undefined
    THEN event
    ELSE [event EXCEPT !.metadata = Metadata(Num(now))]

\* The timestamp prefix every format method but renderTextDelta builds:
\* options.renderTimestamps && event.metadata?.timestamp ? `[...] ` : ''.
TimestampPrefix(event, renderTimestamps, locale) ==
    IF /\ renderTimestamps
       /\ event.metadata.t = "object"
       /\ Truthy(event.metadata.timestamp)
    THEN <<"[">> \o toLocaleTimeString(event.metadata.timestamp.v, locale) \o <<"]", " ">>
    ELSE << >>

Stars(n) == [k \in 1..n |-> "*"]
Fence == <<Backtick, Backtick, Backtick>>

maxToolResultLength == 200

truncateContent(content, maxLength) ==
    IF Len(content) <= maxLength THEN content
    ELSE SubSeq(content, 1, maxLength) \o <<".", ".", ".">>

formatToolCall(event, ts) ==
    <<NL, NL>> \o ts \o <<Seedling, " ">> \o Stars(2) \o <<"g", "i", "t">> \o Stars(2)
        \o <<NL>> \o Fence \o <<"j", "s", "o", "n", NL, "{", "}", NL>> \o Fence
        \o <<NL, NL>>

formatToolResult(event, ts) ==
    <<NL>> \o ts \o <<CheckMark, " ">> \o Stars(2)
        \o <<"R", "e", "s", "u", "l", "t">> \o Stars(2) \o <<":", " ">>
        \o truncateContent(<<"o", "k">>, maxToolResultLength) \o <<NL, NL>>

formatThinking(event, ts) ==
    <<NL>> \o ts \o <<">", " ", IF event.type.v = "reasoning" THEN Zap ELSE ThoughtBalloon, " ">>
        \o Stars(1) \o TemplateText(event.content) \o Stars(1) \o <<NL, NL>>

formatStatus(event, ts) ==
    <<NL>> \o ts \o <<InfoSign, " ">> \o Stars(2) \o TemplateText(event.content) \o Stars(2)
        \o <<NL, NL>>

formatError(event, ts) ==
    <<NL>> \o ts \o <<CrossMark, " ">> \o Stars(2) \o <<"E", "r", "r", "o", "r">>
        \o Stars(2) \o <<":", " ">> \o TemplateText(event.content) \o <<NL, NL>>

formatStart(ts) ==
    <<NL>> \o ts \o <<Rocket, " ">> \o Stars(2)
        \o <<"S", "t", "a", "r", "t", "i", "n", "g">> \o Stars(2)
        \o <<".", ".", ".", NL, NL>>

formatComplete(ts) ==
    <<NL>> \o ts \o <<CheckBox, " ">> \o Stars(2)
        \o <<"C", "o", "m", "p", "l", "e", "t", "e">> \o Stars(2) \o <<NL, NL>>

\* renderEvent: the arguments of renderer.stream for the event, none or one.
\* renderThinking looks at options.showThinking once more.
renderEvent(event, renderTimestamps, showThinking, locale) ==
    LET ts == TimestampPrefix(event, renderTimestamps, locale)
        type == IF event.type.t = "string" THEN event.type.v ELSE "undefined"
    IN  CASE type = "text_delta" ->
                 IF Truthy(event.content) THEN <<event.content.v>> ELSE << >>
          [] type = "tool_call" -> <<formatToolCall(event, ts)>>
          [] type = "tool_result" -> <<formatToolResult(event, ts)>>
          [] type \in {"thinking", "reasoning"} ->
                 IF ~showThinking \/ ~Truthy(event.content) THEN << >>
                 ELSE <<formatThinking(event, ts)>>
          [] type \in {"status", "step"} -> <<formatStatus(event, ts)>>
          [] type = "error" -> <<formatError(event, ts)>>
          [] type = "start" -> <<formatStart(ts)>>
          [] type = "complete" -> <<formatComplete(ts)>>
          [] OTHER -> << >>

\* processEvent without the validation of lines 63-66: what is not an
\* object is taken for an object without properties.
processEventUnchecked(event, now, renderTimestamps, showThinking, locale) ==
    LET e == IF event.t = "object" THEN event
             ELSE EventObject(Undefined, Undefined, Undefined, Undefined,
                              Undefined, Undefined)
    IN  renderEvent(transformEvent(e, now), renderTimestamps, showThinking, locale)

\* processEvent whose renderThinking does not look at options.showThinking
\* and that renders whatever shouldRenderEvent is given.
processEventThinkingShown(event, now, renderTimestamps, showThinking, locale) ==
    IF ~validateEvent(event) THEN << >>
    ELSE renderEvent(transformEvent(event, now), renderTimestamps, TRUE, locale)

\* processEvent: the arguments of renderer.stream for the event.
processEvent(event, now, renderTimestamps, showThinking, locale) ==
    IF ~validateEvent(event) THEN << >>
    ELSE IF ~shouldRenderEvent(event, showThinking) THEN << >>
    ELSE renderEvent(transformEvent(event, now), renderTimestamps, showThinking, locale)

Hello == <<"H", "i">>
\* The timestamps an event may carry (0, and 01:02:03 on the first day of
\* the epoch) and the values of Date.now() (13:04:05 on that day).
Timestamps == {0, 3723000}
Clock == {47045000}
Locales == {"en-US", "en-GB"}
EventTypes == VALID_EVENT_TYPES \cup {"unknown"}

\* The events given to processEvent: of every type with and without
\* content and with and without a timestamp of their own, text and thinking
\* with empty content, a start event with timestamp 0, tool calls and tool
\* results with and without what they need, and null and undefined.
Events ==
    {EventObject(Str(type), content, Undefined, Undefined, Undefined, metadata) :
         type \in EventTypes \ {"tool_call", "tool_result"},
         content \in {Str(Hello), Undefined},
         metadata \in {Undefined} \cup {Metadata(Num(t)) : t \in Timestamps \ {0}}}
    \cup {EventObject(Str(type), Str(<< >>), Undefined, Undefined, Undefined, Undefined) :
         type \in {"text_delta", "thinking"}}
    \cup {EventObject(Str("start"), Undefined, Undefined, Undefined, Undefined,
                     Metadata(Num(0)))}
    \cup {EventObject(Str("tool_call"), Undefined, toolName, toolArgs, Undefined, Undefined) :
         toolName \in {Str(<<"g", "i", "t">>), Undefined},
         toolArgs \in {EmptyObject, Null, Undefined}}
    \cup {EventObject(Str("tool_result"), Undefined, Undefined, Undefined, toolResult,
                     Undefined) :
         toolResult \in {Str(<<"o", "k">>), Undefined}}
    \cup {Null, Undefined}
MaxEvents == 1

\* The arguments of updateOptions: a value for some of the options.
OptionKeys == {"renderTimestamps", "showThinking"}
PartialOptions == UNION {[K -> BOOLEAN] : K \in SUBSET OptionKeys}

AdapterInit ==
    /\ adRenderTimestamps = FALSE
    /\ adShowThinking \in BOOLEAN
    /\ adLocale \in Locales
    /\ adStreamed = << >>
    /\ adProcessed = << >>
    /\ adLastUpdate = << >>
    /\ ParserIdle
    /\ TableIdle
    /\ StreamttyIdle
    /\ SanitizerIdle
    /\ ProtocolIdle
    /\ RenderIdle
    /\ StreamRendererIdle
    /\ SafeOpIdle
    /\ EmitterIdle

ProcessEvent(event, now) ==
    /\ Len(adProcessed) < MaxEvents
    /\ adProcessed' = Append(adProcessed, event)
    /\ \E calls \in {processEvent(event, now, adRenderTimestamps, adShowThinking,
                                   adLocale)} :
           adStreamed' = adStreamed \o
               [k \in 1..Len(calls) |->
                   [arg |-> calls[k],
                    event |-> event,
                    renderTimestamps |-> adRenderTimestamps,
                    showThinking |-> adShowThinking]]
    /\ adLastUpdate' = << >>
    /\ UNCHANGED <<adRenderTimestamps, adShowThinking, adLocale>>

\* updateOptions: this.options = { ...this.options, ...options }
UpdateOptions(options) ==
    /\ adRenderTimestamps' =
           IF "renderTimestamps" \in DOMAIN options THEN options["renderTimestamps"]
           ELSE adRenderTimestamps
    /\ adShowThinking' =
           IF "showThinking" \in DOMAIN options THEN options["showThinking"]
           ELSE adShowThinking
    /\ adLastUpdate' = <<options>>
    /\ UNCHANGED <<adLocale, adStreamed, adProcessed>>

AdapterNext ==
    \/ (\E event \in Events, now \in Clock : ProcessEvent(event, now))
            /\ UNCHANGED <<parserVars, tableVars, streamttyVars, sanitizerVars, protocolVars, renderVars, streamRendererVars, safeOpVars, emitterVars>>
    \/ (\E options \in PartialOptions : UpdateOptions(options))
            /\ UNCHANGED <<parserVars, tableVars, streamttyVars, sanitizerVars, protocolVars, renderVars, streamRendererVars, safeOpVars, emitterVars>>

-----------------------------------------------------------------------------
(* The static methods of StreamProtocol (src/unnamed/part_011) applied to    *)
(* one event.                                                                *)
\* getEventPriority's table.
priorities ==
    [type \in VALID_EVENT_TYPES |->
        CASE type = "error" -> 0
          [] type \in {"start", "complete"} -> 1
          [] type \in {"status", "step"} -> 2
          [] type \in {"tool_call", "tool_result"} -> 3
          [] type \in {"thinking", "reasoning"} -> 4
          [] type = "text_delta" -> 5]

\* priorities[event.type] || 10
getEventPriority(event) ==
    LET found == IF event.type.t = "string" /\ event.type.v \in DOMAIN priorities
                 THEN Num(priorities[event.type.v]) ELSE Undefined
    IN  IF Truthy(found) THEN found.v ELSE 10

\* The values given to validateEvent: null, undefined, a string, and the
\* objects with or without each property.
ProtocolEvents ==
    {Null, Undefined, Str(Hello)}
    \cup {EventObject(type, content, toolName, toolArgs, toolResult, metadata) :
            type \in {Undefined} \cup {Str(t) : t \in EventTypes},
            content \in {Undefined, Str(<< >>), Str(Hello), Num(1)},
            toolName \in {Undefined, Str(<< >>), Str(<<"g", "i", "t">>)},
            toolArgs \in {Undefined, Null, EmptyObject},
            toolResult \in {Undefined, Str(<<"o", "k">>)},
            metadata \in {Undefined, Metadata(Undefined)}}

ProtocolInit ==
    /\ prEvent \in ProtocolEvents
    /\ prValid = << >>
    /\ prPriority = << >>
    /\ ParserIdle
    /\ TableIdle
    /\ StreamttyIdle
    /\ SanitizerIdle
    /\ AdapterIdle
    /\ RenderIdle
    /\ StreamRendererIdle
    /\ SafeOpIdle
    /\ EmitterIdle

ValidateEvent ==
    /\ prValid = << >>
    /\ prValid' = <<validateEvent(prEvent)>>
    /\ UNCHANGED <<prEvent, prPriority>>

\* getEventPriority takes a StreamEvent, an object.
GetEventPriority ==
    /\ prPriority = << >>
    /\ prEvent.t = "object"
    /\ prPriority' = <<getEventPriority(prEvent)>>
    /\ UNCHANGED <<prEvent, prValid>>

ProtocolNext ==
    \/ ValidateEvent
         /\ UNCHANGED <<parserVars, tableVars, streamttyVars, sanitizerVars, adapterVars, renderVars, streamRendererVars, safeOpVars, emitterVars>>
    \/ GetEventPriority
         /\ UNCHANGED <<parserVars, tableVars, streamttyVars, sanitizerVars, adapterVars, renderVars, streamRendererVars, safeOpVars, emitterVars>>

-----------------------------------------------------------------------------
(* The render passes of a Streamtty instance, one step per run between two   *)
(* awaits (src/src/index.ts:181-227, src/unnamed/part_009:18-58).            *)
(* BlessedRenderer.render awaits renderToken for every block token.  For a   *)
(* mermaid token the promise settles when the diagram tool has run           *)
(* (part_009:652), after timers and other callbacks had their turn; for any  *)
(* other block token the box exists when the await is reached and the pass   *)
(* goes on before the next timer.  Rendering does not fail here.             *)
Suspended(toks, i, wait) == [toks |-> toks, i |-> i, wait |-> wait]

\* The loop of BlessedRenderer.render from token i until the next await or
\* the end: the children of the container, and the pass if it is suspended.
RECURSIVE RunPass(_, _, _, _)
RunPass(toks, i, line, acc) ==
    LET flushed == IF line = << >> THEN acc ELSE Append(acc, LineOf(line))
    IN  IF i > Len(toks) THEN [children |-> flushed, suspended |-> << >>]
        ELSE IF toks[i].type \in InlineTypes
        THEN RunPass(toks, i + 1, Append(line, toks[i]), acc)
        ELSE IF toks[i].type = "mermaid"
        THEN [children |-> flushed, suspended |-> <<Suspended(toks, i, "macro")>>]
        ELSE [children |-> Append(flushed, BoxOf(toks[i])),
              suspended |-> <<Suspended(toks, i + 1, "micro")>>]

\* BlessedRenderer.render(tokens) up to its first await: the children are
\* destroyed first.
StartPass(toks) == RunPass(toks, 1, << >>, << >>)

\* A suspended pass goes on: a mermaid token gets its box, then the loop
\* continues on the children the container holds now.
ResumePass(p, children) ==
    IF p.wait = "macro"
    THEN RunPass(p.toks, p.i + 1, << >>, Append(children, BoxOf(p.toks[p.i])))
    ELSE RunPass(p.toks, p.i, << >>, children)

\* Whether a pass waits for a settled promise: timers and other callbacks
\* run only when none does.
MicrotaskPending == \E k \in 1..Len(passes) : passes[k].wait = "micro"

RemoveAt(seq, k) == SubSeq(seq, 1, k - 1) \o SubSeq(seq, k + 1, Len(seq))

MaxVersions == 3
MaxDirect == 1

RenderInit ==
    /\ buffer = << >> /\ tokens = << >> /\ parseIncomplete = TRUE
    /\ chunks = << >> /\ returned = << >> /\ outcome = "none" /\ path = "none"
    /\ StreamttyIdle
    /\ RenderIdle
    /\ StreamRendererIdle
    /\ SafeOpIdle
    /\ EmitterIdle
    /\ TableIdle
    /\ SanitizerIdle
    /\ AdapterIdle
    /\ ProtocolIdle

\* stream(chunk) and setContent(markdown), counted.
RenderStream(chunk) ==
    /\ stVersion < MaxVersions
    /\ Stream(chunk)
    /\ stVersion' = stVersion + 1
    /\ UNCHANGED <<passes, lastStarted, passesStarted, directCalls>>

RenderSetContent(markdown) ==
    /\ stVersion < MaxVersions
    /\ SetContent(markdown)
    /\ stVersion' = stVersion + 1
    /\ UNCHANGED <<passes, lastStarted, passesStarted, directCalls>>

\* The setTimeout callback of scheduleRender: this.render() runs to its
\* first await, then pendingUpdate = false.
TimerStarts ==
    /\ timers > 0
    /\ ~MicrotaskPending
    /\ \E r \in {StartPass(stTokens)} :
        /\ container' = r.children
        /\ passes' = passes \o r.suspended
    /\ timers' = timers - 1
    /\ pendingUpdate' = FALSE
    /\ batched' = 0
    /\ lastStarted' = stVersion
    /\ passesStarted' = passesStarted + 1
    /\ UNCHANGED <<parserVars, stContent, stTokens, failedAt, renderThrew,
                   wasCleared, stVersion, directCalls>>

\* this.render() called by the setInterval callback of startAutoRender
\* (interval TRUE) or by the user of the instance.
RenderCall(interval) ==
    /\ directCalls < MaxDirect
    /\ interval => ~MicrotaskPending
    /\ \E r \in {StartPass(stTokens)} :
        /\ container' = r.children
        /\ passes' = passes \o r.suspended
    /\ lastStarted' = stVersion
    /\ passesStarted' = passesStarted + 1
    /\ directCalls' = directCalls + 1
    /\ UNCHANGED <<parserVars, stContent, stTokens, pendingUpdate, timers,
                   failedAt, renderThrew, batched, wasCleared, stVersion>>

\* The pass suspended at position k goes on to its next await or its end.
PassResumes(k) ==
    /\ k \in 1..Len(passes)
    /\ passes[k].wait = "macro" => ~MicrotaskPending
    /\ \E r \in {ResumePass(passes[k], container)} :
        /\ container' = r.children
        /\ passes' = RemoveAt(passes, k) \o r.suspended
    /\ UNCHANGED <<parserVars, stContent, stTokens, pendingUpdate, timers,
                   failedAt, renderThrew, batched, wasCleared, stVersion,
                   lastStarted, passesStarted, directCalls>>

RenderNext ==
    \/ (\E chunk \in StreamChunks : RenderStream(chunk))
            /\ UNCHANGED <<tableVars, sanitizerVars, adapterVars, protocolVars, streamRendererVars, safeOpVars, emitterVars>>
    \/ (\E markdown \in StreamChunks : RenderSetContent(markdown))
            /\ UNCHANGED <<tableVars, sanitizerVars, adapterVars, protocolVars, streamRendererVars, safeOpVars, emitterVars>>
    \/ TimerStarts
            /\ UNCHANGED <<tableVars, sanitizerVars, adapterVars, protocolVars, streamRendererVars, safeOpVars, emitterVars>>
    \/ (\E interval \in BOOLEAN : RenderCall(interval))
            /\ UNCHANGED <<tableVars, sanitizerVars, adapterVars, protocolVars, streamRendererVars, safeOpVars, emitterVars>>
    \/ (\E k \in 1..Len(passes) : PassResumes(k))
            /\ UNCHANGED <<tableVars, sanitizerVars, adapterVars, protocolVars, streamRendererVars, safeOpVars, emitterVars>>

-----------------------------------------------------------------------------
(* createStreamRenderer (src/src/streaming/stream-stats.ts:329-459): the     *)
(* renderer object around one Streamtty instance and one EventEmitter.  Of   *)
(* the emitter only the listeners of 'destroy' are followed.  A call that    *)
(* reaches the Streamtty instance is recorded with its name and the value    *)
(* of isDestroyed at that moment.                                            *)
Delivered(op) == [op |-> op, destroyed |-> isDestroyed]

MaxDelivered == 3
MaxLoopEvents == 2
MaxHandlers == 2

StreamRendererInit ==
    /\ StreamRendererIdle
    /\ SafeOpIdle
    /\ EmitterIdle
    /\ ParserIdle
    /\ TableIdle
    /\ StreamttyIdle
    /\ SanitizerIdle
    /\ AdapterIdle
    /\ ProtocolIdle
    /\ RenderIdle

\* append, appendStructured, clear and updateOptions: nothing when
\* isDestroyed, else the call is passed to the Streamtty instance as
\* stream, streamEvent, clear and updateAIOptions.
GuardedCall(op) ==
    /\ Len(srDelivered) < MaxDelivered
    /\ srDelivered' = IF isDestroyed THEN srDelivered
                      ELSE Append(srDelivered, Delivered(op))
    /\ UNCHANGED <<isDestroyed, srListeners, srLoop, srInvoked, srAtDestroy>>

\* streamEvents(events) and handleAISDKStream(stream): nothing when
\* isDestroyed, else the loop of Streamtty.streamEvents or
\* Streamtty.handleAISDKStream starts on a generator of n events.
LoopStarts(n) ==
    /\ srLoop = << >>
    /\ srLoop' = IF isDestroyed THEN << >> ELSE <<n>>
    /\ UNCHANGED <<isDestroyed, srListeners, srDelivered, srInvoked, srAtDestroy>>

\* One turn of for await (const event of events): the next event is passed
\* to this.streamEvent; the loop ends with the generator.
LoopTakesEvent ==
    /\ srLoop # << >>
    /\ Len(srDelivered) < MaxDelivered
    /\ srDelivered' = IF srLoop[1] > 0 THEN Append(srDelivered, Delivered("streamEvent"))
                      ELSE srDelivered
    /\ srLoop' = IF srLoop[1] > 0 THEN <<srLoop[1] - 1>> ELSE << >>
    /\ UNCHANGED <<isDestroyed, srListeners, srInvoked, srAtDestroy>>

\* on('destroy', handler)
On(handler) ==
    /\ srListeners' = Append(srListeners, handler)
    /\ Len(srListeners) < MaxHandlers
    /\ UNCHANGED <<isDestroyed, srLoop, srDelivered, srInvoked, srAtDestroy>>

\* destroy(): nothing when isDestroyed; else isDestroyed is set, the
\* Streamtty instance is destroyed, removeAllListeners() empties the
\* emitter, and emit('destroy') invokes the listeners the emitter then has.
Destroy ==
    /\ isDestroyed' = TRUE
    /\ srAtDestroy' = IF isDestroyed THEN srAtDestroy ELSE srListeners
    /\ \E removed \in {<< >>} :
        /\ srListeners' = IF isDestroyed THEN srListeners ELSE removed
        /\ srInvoked' = IF isDestroyed THEN srInvoked ELSE srInvoked \o removed
    /\ UNCHANGED <<srLoop, srDelivered>>

StreamRendererNext ==
    \/ (\E op \in {"stream", "streamEvent", "clear", "updateAIOptions"} : GuardedCall(op))
         /\ UNCHANGED <<parserVars, tableVars, streamttyVars, sanitizerVars,
                        adapterVars, protocolVars, renderVars, safeOpVars, emitterVars>>
    \/ (\E n \in 0..MaxLoopEvents : LoopStarts(n))
         /\ UNCHANGED <<parserVars, tableVars, streamttyVars, sanitizerVars,
                        adapterVars, protocolVars, renderVars, safeOpVars, emitterVars>>
    \/ LoopTakesEvent
         /\ UNCHANGED <<parserVars, tableVars, streamttyVars, sanitizerVars,
                        adapterVars, protocolVars, renderVars, safeOpVars, emitterVars>>
    \/ (\E handler \in 1..MaxHandlers : On(handler))
         /\ UNCHANGED <<parserVars, tableVars, streamttyVars, sanitizerVars,
                        adapterVars, protocolVars, renderVars, safeOpVars, emitterVars>>
    \/ Destroy
         /\ UNCHANGED <<parserVars, tableVars, streamttyVars, sanitizerVars,
                        adapterVars, protocolVars, renderVars, safeOpVars, emitterVars>>

-----------------------------------------------------------------------------
(* SafeOperation (performance.ts): execute runs an operation under an error *)
(* handler.  A thrown value is a record: its class, the tokens of a         *)
(* StreamttyRenderError (raw texts, "" for a token without raw), and the    *)
(* content of the event of a StreamttyAISDKError.                           *)

NoTokens == [array |-> FALSE, raws |-> << >>]
Tokens(raws) == [array |-> TRUE, raws |-> raws]
ErrorOf(class, toks, content) == [class |-> class, tokens |-> toks, content |-> content]

Thrown ==
    {ErrorOf(c, NoTokens, Undefined) :
        c \in {"StreamttyParseError", "StreamttyConfigError", "StreamttyTTYError",
               "StreamttyPerformanceError", "StreamttyError", "Error", "string"}}
    \cup {ErrorOf("StreamttyRenderError", t, Undefined) :
            t \in {NoTokens, Tokens(<< >>), Tokens(<<"a", "", "b">>)}}
    \cup {ErrorOf("StreamttyAISDKError", NoTokens, c) :
            c \in {Undefined, Str(<< >>), Str(<<"h", "i">>)}}

\* error instanceof Error ? error : new Error(String(error))
AsError(error) ==
    IF error.class = "string" THEN ErrorOf("Error", NoTokens, Undefined) ELSE error

isCriticalError(error) ==
    error.class \in {"StreamttyTTYError", "StreamttyConfigError"}

shouldRetry(handler, error, attempt) ==
    IF attempt >= handler.maxRetries THEN FALSE
    ELSE IF isCriticalError(error) THEN FALSE
    ELSE error.class \in {"StreamttyParseError", "StreamttyRenderError"}

shouldFallback(handler, error) ==
    IF ~handler.fallbackEnabled THEN FALSE
    ELSE error.class \in {"StreamttyRenderError", "StreamttyAISDKError"}

\* handle writes the error and the context with JSON.stringify, which
\* throws a TypeError on a circular structure or a BigInt.
handleThrows(context) == context # "plain"

RECURSIVE JoinRaws(_)
JoinRaws(raws) ==
    IF raws = << >> THEN << >>
    ELSE IF Len(raws) = 1 THEN <<raws[1]>>
    ELSE <<raws[1], " ">> \o JoinRaws(Tail(raws))

\* error.tokens.filter(token => token && token.raw).map(token => token.raw).join(' ')
fallbackRender(error) ==
    IF error.tokens.array
    THEN Str(JoinRaws(SelectSeq(error.tokens.raws, LAMBDA raw : raw # "")))
    ELSE Null

fallbackAISDK(error) ==
    IF Truthy(error.content) THEN error.content ELSE Null

executeFallback(error) ==
    IF error.class = "StreamttyRenderError" THEN fallbackRender(error)
    ELSE IF error.class = "StreamttyAISDKError" THEN fallbackAISDK(error)
    ELSE Null

maxAttempts == 3
MaxRetriesOption == 4

Fulfilled(from, value) == [state |-> "fulfilled", from |-> from, value |-> value]
Rejected(from, value) == [state |-> "rejected", from |-> from, value |-> value]

SafeOpInit ==
    /\ soHandler \in [maxRetries : 0..MaxRetriesOption, fallbackEnabled : BOOLEAN]
    /\ soContext = "plain" /\ soAttempt = 0 /\ soCalls = 0
    /\ soRetries = << >> /\ soState = "idle" /\ soResult = << >>
    /\ ParserIdle
    /\ TableIdle
    /\ StreamttyIdle
    /\ SanitizerIdle
    /\ AdapterIdle
    /\ ProtocolIdle
    /\ RenderIdle
    /\ StreamRendererIdle
    /\ EmitterIdle

\* execute(operation, context) enters its loop with attempt = 0.
Execute(context) ==
    /\ soState = "idle"
    /\ soContext' = context
    /\ soAttempt' = 0
    /\ soState' = "calling"
    /\ UNCHANGED <<soHandler, soCalls, soRetries, soResult>>

\* await operation() gives a value: execute returns it.
OperationResolves(value) ==
    /\ soState = "calling"
    /\ soCalls' = soCalls + 1
    /\ soResult' = <<Fulfilled("operation", value)>>
    /\ soState' = "settled"
    /\ UNCHANGED <<soHandler, soContext, soAttempt, soRetries>>

\* await operation() throws: the catch block of execute.
OperationThrows(error) ==
    /\ soState = "calling"
    /\ soCalls' = soCalls + 1
    /\ \E err \in {AsError(error)} :
        IF handleThrows(soContext)
        THEN /\ soResult' = <<Rejected("handle", Str(<<"TypeError">>))>>
             /\ soState' = "settled"
             /\ UNCHANGED soRetries
        ELSE \E retry \in {shouldRetry(soHandler, err, soAttempt)} :
             /\ soRetries' = Append(soRetries, retry)
             /\ IF retry /\ soAttempt < maxAttempts - 1
                THEN /\ soState' = "delay"
                     /\ UNCHANGED soResult
                ELSE /\ soState' = "settled"
                     /\ soResult' =
                          IF shouldFallback(soHandler, err)
                          THEN <<Fulfilled("fallback", executeFallback(err))>>
                          ELSE <<Fulfilled("null", Null)>>
    /\ UNCHANGED <<soHandler, soContext, soAttempt>>

\* The backoff timer fires and the loop goes to its next attempt.
DelayFires ==
    /\ soState = "delay"
    /\ soAttempt' = soAttempt + 1
    /\ soState' = "calling"
    /\ UNCHANGED <<soHandler, soContext, soCalls, soRetries, soResult>>

SafeOpNext ==
    \/ (\E context \in {"plain", "circular"} : Execute(context))
         /\ UNCHANGED <<parserVars, tableVars, streamttyVars, sanitizerVars,
                        adapterVars, protocolVars, renderVars, streamRendererVars, emitterVars>>
    \/ (\E value \in {Str(<<"o", "k">>), Null} : OperationResolves(value))
         /\ UNCHANGED <<parserVars, tableVars, streamttyVars, sanitizerVars,
                        adapterVars, protocolVars, renderVars, streamRendererVars, emitterVars>>
    \/ (\E error \in Thrown : OperationThrows(error))
         /\ UNCHANGED <<parserVars, tableVars, streamttyVars, sanitizerVars,
                        adapterVars, protocolVars, renderVars, streamRendererVars, emitterVars>>
    \/ DelayFires
         /\ UNCHANGED <<parserVars, tableVars, streamttyVars, sanitizerVars,
                        adapterVars, protocolVars, renderVars, streamRendererVars, emitterVars>>

-----------------------------------------------------------------------------
(* StreamttyEventEmitter (events.ts).  A filter is modelled by the set of   *)
(* payloads it lets through; the filters Map is a function from the event  *)
(* names that have an entry to their filter arrays.                        *)

EventNames == {"custom", "ui:scroll"}
Payloads == {1, 2}
Filters == {{1}, {1, 2}}
MaxHistory == 2
MaxEmits == 3
MaxFilters == 1

\* arr.slice(start)
slice(arr, start) ==
    LET from == IF start < 0
                THEN (IF Len(arr) + start < 0 THEN 0 ELSE Len(arr) + start)
                ELSE Min(start, Len(arr))
    IN SubSeq(arr, from + 1, Len(arr))

\* filters.some(filter => !filter(data)), false when the event has no entry
shouldFilterEvent(fs, event, data) ==
    IF event \notin DOMAIN fs THEN FALSE
    ELSE \E k \in 1..Len(fs[event]) : data \notin fs[event][k]

addToHistory(history, max, entry) ==
    LET pushed == Append(history, entry)
    IN IF Len(pushed) > max THEN slice(pushed, -max) ELSE pushed

\* getHistory(event, limit); "" and 0 stand for arguments left out.
getHistory(event, limit) ==
    LET byType == IF event # ""
                  THEN SelectSeq(eventHistory, LAMBDA item : item.type = event)
                  ELSE eventHistory
    IN IF limit # 0 /\ limit > 0 THEN slice(byType, -limit) ELSE byType

EmitterInit ==
    /\ maxHistorySize \in 0..MaxHistory
    /\ eventHistory = << >> /\ filters = << >>
    /\ emListeners = {} /\ emLog = << >>
    /\ ParserIdle
    /\ TableIdle
    /\ StreamttyIdle
    /\ SanitizerIdle
    /\ AdapterIdle
    /\ ProtocolIdle
    /\ RenderIdle
    /\ StreamRendererIdle
    /\ SafeOpIdle

\* emit(event, data): a filtered event returns at once; any other is added
\* to the history, given to the listeners of its name and then to the
\* listeners of '*'.
Emit(event, data) ==
    /\ Len(emLog) < MaxEmits
    /\ \E n \in {Len(emLog) + 1} :
        IF shouldFilterEvent(filters, event, data)
        THEN /\ emLog' = Append(emLog, [n |-> n, type |-> event, data |-> data,
                                        passed |-> FALSE, to |-> {}])
             /\ UNCHANGED eventHistory
        ELSE /\ eventHistory' = addToHistory(eventHistory, maxHistorySize,
                                    [n |-> n, type |-> event, data |-> data])
             /\ emLog' = Append(emLog, [n |-> n, type |-> event, data |-> data,
                                        passed |-> TRUE,
                                        to |-> emListeners \cap {event, "*"}])
    /\ UNCHANGED <<maxHistorySize, filters, emListeners>>

EmitterOn(event) ==
    /\ emListeners' = emListeners \cup {event}
    /\ UNCHANGED <<maxHistorySize, eventHistory, filters, emLog>>

AddFilter(event, filter) ==
    /\ event \in DOMAIN filters => Len(filters[event]) < MaxFilters
    /\ filters' =
         [e \in DOMAIN filters \cup {event} |->
             IF e = event
             THEN (IF event \in DOMAIN filters THEN filters[event] ELSE << >>) \o <<filter>>
             ELSE filters[e]]
    /\ UNCHANGED <<maxHistorySize, eventHistory, emListeners, emLog>>

\* removeFilter(event): the entry of the event is deleted.
RemoveFilter(event) ==
    /\ filters' = [e \in DOMAIN filters \ {event} |-> filters[e]]
    /\ UNCHANGED <<maxHistorySize, eventHistory, emListeners, emLog>>

ClearHistory ==
    /\ eventHistory' = << >>
    /\ emLog' = << >>
    /\ UNCHANGED <<maxHistorySize, filters, emListeners>>

EmitterNext ==
    \/ (\E event \in EventNames, data \in Payloads : Emit(event, data))
         /\ UNCHANGED <<parserVars, tableVars, streamttyVars, sanitizerVars,
                        adapterVars, protocolVars, renderVars, streamRendererVars, safeOpVars>>
    \/ (\E event \in EventNames \cup {"*"} : EmitterOn(event))
         /\ UNCHANGED <<parserVars, tableVars, streamttyVars, sanitizerVars,
                        adapterVars, protocolVars, renderVars, streamRendererVars, safeOpVars>>
    \/ (\E event \in EventNames, filter \in Filters : AddFilter(event, filter))
         /\ UNCHANGED <<parserVars, tableVars, streamttyVars, sanitizerVars,
                        adapterVars, protocolVars, renderVars, streamRendererVars, safeOpVars>>
    \/ (\E event \in EventNames : RemoveFilter(event))
         /\ UNCHANGED <<parserVars, tableVars, streamttyVars, sanitizerVars,
                        adapterVars, protocolVars, renderVars, streamRendererVars, safeOpVars>>
    \/ ClearHistory
         /\ UNCHANGED <<parserVars, tableVars, streamttyVars, sanitizerVars,
                        adapterVars, protocolVars, renderVars, streamRendererVars, safeOpVars>>

-----------------------------------------------------------------------------
(* Specifications.  Each follows one component; the variables of the others *)
(* stay at rest.                                                             *)
SpecParser == Init /\ [][ParserNext]_vars

SpecTable == TableInit /\ [][TableNext]_vars

SpecStreamtty == StreamttyInit /\ [][StreamttyNext]_vars

SpecSanitizer == SanitizerInit /\ [][SanitizerNext]_vars

SpecAdapter == AdapterInit /\ [][AdapterNext]_vars

SpecProtocol == ProtocolInit /\ [][ProtocolNext]_vars

SpecStreamRenderer == StreamRendererInit /\ [][StreamRendererNext]_vars

SpecSafeOp == SafeOpInit /\ [][SafeOpNext]_vars

SpecEmitter == EmitterInit /\ [][EmitterNext]_vars

SpecRender == RenderInit /\ [][RenderNext]_vars

\* The event loop runs every timer callback and every continuation that is
\* due.
SpecRenderFair ==
    /\ RenderInit /\ [][RenderNext]_vars
    /\ WF_vars(TimerStarts
                 /\ UNCHANGED <<tableVars, sanitizerVars, adapterVars, protocolVars, streamRendererVars, safeOpVars, emitterVars>>)
    /\ WF_vars((\E k \in 1..Len(passes) : PassResumes(k))
                 /\ UNCHANGED <<tableVars, sanitizerVars, adapterVars, protocolVars, streamRendererVars, safeOpVars, emitterVars>>)

-----------------------------------------------------------------------------
(* Properties of the parser session.                                         *)

\* The positions of the provisional tokens of a token list.
Provisional(toks) == {k \in 1..Len(toks) : toks[k].incomplete}

\* The contents of a token list, in order.
Contents(toks) == [k \in 1..Len(toks) |-> toks[k].content]

\* What a fresh session returns for one addChunk(text).
Batch(text) == parse(AppendChunk(<< >>, text), parseIncomplete, << >>).value

\* The text has an opening ``` fence line with no closing fence line after it.
RECURSIVE OpenFence(_, _)
OpenFence(lines, open) ==
    IF lines = << >> THEN open
    ELSE OpenFence(Tail(lines),
                   IF MatchAt(Head(lines), 1, <<Backtick, Backtick, Backtick>>)
                   THEN ~open ELSE open)

\* C1: every array addChunk returns has at most one provisional token, and a
\* provisional token is the last element of the array, on the primary and on
\* the fallback path.
C1_ProvisionalOnlyLast ==
    outcome = "returned" =>
        /\ Cardinality(Provisional(returned)) <= 1
        /\ \A k \in Provisional(returned) : k = Len(returned)

\* C2: addChunk returns a token array and never throws, whatever the chunk and
\* the state of the session; a failure of the lexer ends in the fallback
\* parser's result.
C2_AddChunkNeverThrows ==
    /\ outcome # "threw"
    /\ Len(chunks) > 0 => outcome = "returned" /\ path \in {"primary", "fallback"}

\* C2 witness: an addChunk whose lexer failed and that returned the fallback
\* parser's tokens.
C2_FallbackReturned ==
    outcome = "returned" /\ path = "fallback" /\ returned # << >>

\* C3: once no token is provisional, the contents of the tokens returned for
\* a text fed in chunks equal the contents of the tokens a fresh session
\* returns for the whole text in one addChunk.
C3_StreamingEqualsBatch ==
    (outcome = "returned" /\ Provisional(returned) = {}) =>
        Contents(returned) = Contents(Batch(Concat(chunks)))

\* C4: when the last token was provisional and the chunk just added closes
\* its construct, so that the buffer now ends with a strong, em or code span
\* that was opened before the chunk, the token of that span is not
\* provisional.
C4_ClosedSpanNotProvisional ==
    [][(/\ returned # << >> /\ Last(returned).incomplete
        /\ outcome' = "returned" /\ path' = "primary" /\ returned' # << >>
        /\ Last(returned').type \in {"strong", "em", "code"}
        /\ Len(buffer') > Len(buffer)
        /\ Len(buffer') - Len(Last(returned').raw) + 1 <= Len(buffer)
        /\ From(buffer', Len(buffer') - Len(Last(returned').raw) + 1)
              = Last(returned').raw)
       => ~Last(returned').incomplete]_parserVars

\* C5: the buffer is the concatenation, in call order, of the preprocessed
\* chunks added since the last clear, and empty when there are none.
C5_BufferIsPreprocessedChunks ==
    buffer = Concat([k \in 1..Len(chunks) |-> preprocessText(chunks[k])])

\* C5 witness: two or more chunks were added and preprocessing changed one of
\* them.
C5_PreprocessedBuffer ==
    Len(chunks) >= 2 /\ buffer # Concat(chunks) /\ buffer # << >>

HelloChunk1 == SubSeq(DocHello, 1, 5)
HelloChunk2 == SubSeq(DocHello, 6, 21)
HelloChunk3 == SubSeq(DocHello, 22, 31)

\* C6: with incompleteness handling on, the chunks "# Hel",
\* "lo\n\nThis is **bo", "ld** text." give a provisional heading "Hel", then
\* a settled heading "Hello" followed by a provisional text, then heading
\* "Hello", strong "bold" and text " text." with no token provisional.
C6_HelloScenario ==
    parseIncomplete =>
        /\ chunks = <<HelloChunk1>> =>
              /\ Len(returned) = 1
              /\ returned[1].type = "heading"
              /\ returned[1].content = <<"H", "e", "l">>
              /\ returned[1].incomplete
        /\ chunks = <<HelloChunk1, HelloChunk2>> =>
              /\ Len(returned) = 2
              /\ returned[1].type = "heading"
              /\ returned[1].content = <<"H", "e", "l", "l", "o">>
              /\ ~returned[1].incomplete
              /\ returned[2].type = "text"
              /\ returned[2].incomplete
        /\ chunks = <<HelloChunk1, HelloChunk2, HelloChunk3>> =>
              /\ returned # << >>
              /\ returned[1].type = "heading"
              /\ returned[1].content = <<"H", "e", "l", "l", "o">>
              /\ \E k \in 1..Len(returned) :
                    /\ returned[k].type = "strong"
                    /\ returned[k].content = <<"b", "o", "l", "d">>
              /\ Last(returned).type = "text"
              /\ Last(returned).content = <<" ", "t", "e", "x", "t", ".">>
              /\ Provisional(returned) = {}

\* C7: while the buffer has an opening fence without a closing fence line,
\* every code block token addChunk returns for the open fence is provisional.
C7_OpenFenceProvisional ==
    (outcome = "returned" /\ returned # << >> /\ OpenFence(SplitLines(buffer), FALSE)
        /\ Last(returned).type = "codeblock")
        => Last(returned).incomplete

\* C8: in a session created with incompleteness handling off, no text token
\* of a returned array is flagged provisional by a scan of the text's tail,
\* on the primary and on the fallback path.
C8_DisabledFlagsNothing ==
    (~parseIncomplete /\ outcome = "returned") =>
        \A k \in 1..Len(returned) :
            returned[k].type = "text" => ~returned[k].incomplete

\* C9: right after addChunk returns, getTokens() is the token sequence the
\* call returned, on the primary and on the fallback path.
C9_GetTokensIsReturned ==
    outcome = "returned" => tokens = returned

\* C10: a heading token returned by the fallback line parser is never
\* provisional.
C10_FallbackHeadingSettled ==
    (outcome = "returned" /\ path = "fallback") =>
        \A k \in 1..Len(returned) :
            returned[k].type = "heading" => ~returned[k].incomplete

\* C11: a fenced block without a language tag whose first line is "graph TD"
\* is returned as a mermaid token, and the same block tagged python is
\* returned as a codeblock token, not as a mermaid token.
C11_DiagramOnlyWhenUntagged ==
    outcome = "returned" =>
        /\ buffer = DocGraph =>
              Len(returned) = 1 /\ returned[1].type = "mermaid"
        /\ buffer = DocPython =>
              Len(returned) = 1 /\ returned[1].type = "codeblock"

\* C12: the content of the table token of a valid table is a pipe-delimited
\* table that parses again to a table with as many header cells and as many
\* rows as the table fed in.
C12_TableRoundTrip ==
    tableStage = "parsed" =>
        /\ tableData.ok
        /\ Len(tableData.headers) = Len(tableSrc.header)
        /\ Len(tableData.rows) = Len(tableSrc.rows)

\* C13: every row of the table token's content has as many cells as its
\* header line, and every row of the parsed table data has as many cells as
\* the headers: a row that does not fit the header is in neither.
C13_RowsFitHeader ==
    /\ tableStage \in {"converted", "parsed"} =>
          LET lines == SplitLines(tableContent)
          IN  \A r \in 3..Len(lines) :
                  Len(PipeCells(lines[r])) = Len(PipeCells(lines[1]))
    /\ (tableStage = "parsed" /\ tableData.ok) =>
          \A r \in 1..Len(tableData.rows) :
              Len(tableData.rows[r]) = Len(tableData.headers)

\* C14: a numeric character reference whose number is no valid character is
\* left in the buffer as it was written.
C14_BadReferenceKept ==
    chunks = <<DocBadRef>> => buffer = DocBadRef

TokensOf(child) == {child.of[k] : k \in 1..Len(child.of)}

\* C16: when the rendering of one token fails in a render pass, no exception
\* leaves render(), the container shows a placeholder for that token, and
\* the tokens before it are still shown in the container.
C16_FailedTokenPlaceholder ==
    [][(timers' = timers - 1 /\ failedAt' > 0) =>
          /\ ~renderThrew'
          /\ \E k \in 1..Len(container') :
                /\ container'[k].kind = "placeholder"
                /\ stTokens[failedAt'] \in TokensOf(container'[k])
          /\ \A i \in 1..(failedAt' - 1) :
                \E k \in 1..Len(container') : stTokens[i] \in TokensOf(container'[k])
       ]_vars

\* C17: at most one render timer is pending, it is pending exactly while
\* pendingUpdate is set, and the calls that arrive meanwhile set no other.
C17_OneRenderTimer ==
    /\ timers <= 1
    /\ pendingUpdate <=> timers = 1
    /\ batched > 0 => timers = 1

\* C17 witness: two calls were batched into the one pending render.
C17_TwoCallsOneTimer ==
    timers = 1 /\ pendingUpdate /\ batched >= 2

\* C18: after clear() the content and the token list are empty, and the
\* tokens of every later stream() are those of the content streamed since
\* the clear.
C18_ClearForgets ==
    wasCleared =>
        /\ stContent = << >> => stTokens = << >>
        /\ Contents(stTokens) = Contents(Batch(stContent))


-----------------------------------------------------------------------------
(* Properties of sanitizeForTerminal.                                        *)
\* The colour codes of s, the matches of /\x1b\[\d{1,3}(?:;\d{1,3})*m/g, in
\* order.
RECURSIVE SgrCodes(_, _)
SgrCodes(s, i) ==
    IF i > Len(s) THEN << >>
    ELSE LET j == CsiMatch(s, i, Digits \cup {";"}, {"m"})
         IN  IF j > 0 /\ IsSgrParams(SubSeq(s, i + 2, j - 1))
             THEN <<SubSeq(s, i, j)>> \o SgrCodes(s, j + 1)
             ELSE SgrCodes(s, i + 1)

\* C19: the result of sanitizeForTerminal with the default options holds no
\* dangerous sequence (operating system command, cursor movement, save or
\* restore, mode set or reset, erase display, null byte), and it holds
\* every colour code of the input, intact and in order.
C19_DangerousGoneColourKept ==
    sanCalled =>
        /\ \A i \in 1..Len(sanResult) : \A k \in 1..Len(DANGEROUS_ANSI_PATTERNS) :
               PatternEnd(sanResult, i, DANGEROUS_ANSI_PATTERNS[k]) = 0
        /\ SgrCodes(sanResult, 1) = SgrCodes(sanInput, 1)

-----------------------------------------------------------------------------
(* Properties of the stream adapter.                                         *)
\* Whether s holds a bracketed time of day [h:mm:ss]: the test's pattern
\* /\[\d{1,2}:\d{2}:\d{2}\]/.
HasBracketedTime(s) ==
    \E i \in 1..Len(s) : \E n \in 1..2 :
        /\ s[i] = "["
        /\ i + n + 7 <= Len(s)
        /\ \A k \in ((i + 1)..(i + n)) \cup {i + n + 2, i + n + 3, i + n + 5, i + n + 6} :
               s[k] \in Digits
        /\ s[i + n + 1] = ":" /\ s[i + n + 4] = ":" /\ s[i + n + 7] = "]"

\* C20: with renderTimestamps enabled, every string passed to
\* renderer.stream for a processed event, a text_delta event included, holds
\* a bracketed time of day [h:mm:ss]; with it disabled, a text_delta event
\* is passed as exactly its content.
C20_TimestampWhenEnabled ==
    \A k \in 1..Len(adStreamed) :
        /\ adStreamed[k].renderTimestamps => HasBracketedTime(adStreamed[k].arg)
        /\ (~adStreamed[k].renderTimestamps /\ adStreamed[k].event.type.v = "text_delta")
               => adStreamed[k].arg = adStreamed[k].event.content.v

-----------------------------------------------------------------------------
(* Properties of StreamProtocol.                                             *)
\* A well-formed event: an object of a known type; with string content when
\* its type bears content; a tool_result with a toolResult; a tool_call
\* with a non-empty toolName and toolArgs that are neither missing nor null.
ContentTypes == {"text_delta", "thinking", "reasoning", "status", "step", "error"}
WellFormed(event) ==
    /\ event.t = "object"
    /\ event.type.t = "string" /\ event.type.v \in VALID_EVENT_TYPES
    /\ event.type.v \in ContentTypes => event.content.t = "string"
    /\ event.type.v = "tool_result" => event.toolResult # Undefined
    /\ event.type.v = "tool_call" =>
           /\ event.toolArgs \notin {Undefined, Null}
           /\ event.toolName.t = "string" /\ event.toolName.v # << >>

\* C21: validateEvent returns true exactly for the well-formed events.
C21_ValidExactlyWellFormed ==
    prValid # << >> => (prValid[1] <=> WellFormed(prEvent))

\* C22: getEventPriority returns 0 for error, 1 for start and complete, 2
\* for status, 3 for tool_call and tool_result, 4 for thinking, 5 for
\* text_delta and 10 for an unknown type, so an error event has a strictly
\* smaller number than an event of any other type.
C22_PriorityTable ==
    (prPriority # << >> /\ prEvent.type.t = "string") =>
        LET type == prEvent.type.v
        IN  /\ type = "error" => prPriority[1] = 0
            /\ type \in {"start", "complete"} => prPriority[1] = 1
            /\ type = "status" => prPriority[1] = 2
            /\ type \in {"tool_call", "tool_result"} => prPriority[1] = 3
            /\ type = "thinking" => prPriority[1] = 4
            /\ type = "text_delta" => prPriority[1] = 5
            /\ type \notin VALID_EVENT_TYPES => prPriority[1] = 10
            /\ type = "error" =>
                   \A other \in ProtocolEvents :
                       (other.t = "object" /\ other.type # prEvent.type)
                           => prPriority[1] < getEventPriority(other)

\* C23: an event that fails validateEvent never reaches the renderer:
\* every call of renderer.stream was made for an event that validateEvent
\* accepts, so processEvent of an invalid event ends with no call made.
C23_InvalidNeverStreamed ==
    \A k \in 1..Len(adStreamed) : validateEvent(adStreamed[k].event)

\* C23 witness: an invalid event was processed and nothing was streamed.
C23_InvalidEventDropped ==
    /\ adProcessed # << >>
    /\ ~validateEvent(adProcessed[1])
    /\ adStreamed = << >>

\* C24: no thinking or reasoning event is streamed while showThinking is
\* false, whether that value comes from the constructor or from
\* updateOptions, and updateOptions leaves every option it is not given
\* a value for as it was.
C24_ThinkingHiddenOptionsKept ==
    /\ [](\A k \in 1..Len(adStreamed) :
             adStreamed[k].event.type.v \in {"thinking", "reasoning"}
                 => adStreamed[k].showThinking)
    /\ [][adLastUpdate' # << >> =>
             /\ "renderTimestamps" \notin DOMAIN adLastUpdate'[1]
                    => adRenderTimestamps' = adRenderTimestamps
             /\ "showThinking" \notin DOMAIN adLastUpdate'[1]
                    => adShowThinking' = adShowThinking
             /\ adStreamed' = adStreamed
         ]_vars

\* C24 witness: updateOptions turned showThinking off without naming
\* renderTimestamps, and a thinking event with content was then processed
\* without a call of renderer.stream.
C24_ThinkingEventHidden ==
    /\ adRenderTimestamps /\ ~adShowThinking
    /\ adProcessed # << >>
    /\ validateEvent(adProcessed[1])
    /\ adProcessed[1].type.v = "thinking" /\ Truthy(adProcessed[1].content)
    /\ adStreamed = << >>

-----------------------------------------------------------------------------
(* Properties of the render passes.                                          *)
\* No pass is suspended, no timer is set, and the latest pass started after
\* the latest stream or setContent call.
Quiescent ==
    /\ passes = << >> /\ timers = 0
    /\ passesStarted > 0 /\ lastStarted = stVersion

\* C25: at most one render pass is in progress at any time, whether passes
\* are started by the debounce timer, the auto-render interval or a direct
\* render() call, so after quiescence the container holds exactly the
\* elements of the latest token list.
C25_OnePassAtATime ==
    /\ Len(passes) <= 1
    /\ Quiescent => container = rendererRender(stTokens, 0, FALSE).children

\* C26: no update is lost by debouncing: after every stream or setContent
\* call a render pass eventually starts that uses a token list at least as
\* recent as the one the call produced, and pendingUpdate, once set,
\* eventually returns to false.
C26_NoUpdateLost ==
    /\ \A v \in 1..MaxVersions : (stVersion = v) ~> (lastStarted >= v)
    /\ pendingUpdate ~> ~pendingUpdate

\* C26 witness: two calls were batched into the one pass the debounce timer
\* started, and that pass used the token list of the second call.
C26_BatchedCallsRendered ==
    /\ stVersion = 2 /\ lastStarted = 2
    /\ passesStarted = 1 /\ directCalls = 0
    /\ ~pendingUpdate /\ timers = 0

-----------------------------------------------------------------------------
(* Properties of the renderer of createStreamRenderer.                       *)
\* C27: once destroy() has been called, no later call and no running
\* streamEvents or handleAISDKStream loop passes a chunk, an event, a clear
\* or an option update to the Streamtty instance.
C27_NothingAfterDestroy ==
    \A k \in 1..Len(srDelivered) : ~srDelivered[k].destroyed

\* How often handler h was invoked.
TimesInvoked(h) == Cardinality({k \in 1..Len(srInvoked) : srInvoked[k] = h})

\* C28: the first destroy() invokes every listener registered for 'destroy'
\* exactly once, and later destroy() calls invoke nothing.
C28_DestroyListenersInvokedOnce ==
    isDestroyed =>
        \A k \in 1..Len(srAtDestroy) :
            TimesInvoked(srAtDestroy[k]) =
                Cardinality({j \in 1..Len(srAtDestroy) : srAtDestroy[j] = srAtDestroy[k]})

\* The promise execute returned was fulfilled with what the operation
\* returned, with a fallback value or with null.
SettledWithValue ==
    soState = "settled" =>
        /\ soResult[1].state = "fulfilled"
        /\ soResult[1].from \in {"operation", "fallback", "null"}

\* Every invocation of the operation after the first follows a shouldRetry
\* that returned true.
RetriedOnlyWhenAsked ==
    \A k \in 1..Len(soRetries) : k < soCalls => soRetries[k]

\* C29: execute invokes the operation at most 3 times, retries only while
\* shouldRetry returns true, and resolves to the operation's result, a
\* fallback value or null; it never rejects.
C29_ExecuteResolves ==
    /\ soCalls <= maxAttempts
    /\ RetriedOnlyWhenAsked
    /\ SettledWithValue

\* The entries of the emit calls that passed the filters since the history
\* was last cleared, in emission order.
PassedEmits ==
    LET passed == SelectSeq(emLog, LAMBDA e : e.passed)
    IN [k \in 1..Len(passed) |->
           [n |-> passed[k].n, type |-> passed[k].type, data |-> passed[k].data]]

\* The last n entries of a sequence.
MostRecent(s, n) == SubSeq(s, IF Len(s) > n THEN Len(s) - n + 1 ELSE 1, Len(s))

\* An event the filters rejected was given to no listener.
RejectedNotDelivered ==
    \A k \in 1..Len(emLog) : ~emLog[k].passed => emLog[k].to = {}

\* The history is made of the events that passed, in emission order, with
\* none left out between its first entry and the latest event.
HistoryIsRecentPassed ==
    \E n \in 0..Len(PassedEmits) : getHistory("", 0) = MostRecent(PassedEmits, n)

\* C30: the history never holds more than maxHistorySize entries and is
\* always the most recent events that passed the filters, in emission
\* order; a filtered event is neither recorded nor delivered to a listener.
C30_HistoryBoundedRecent ==
    /\ Len(eventHistory) <= maxHistorySize
    /\ getHistory("", 0) = MostRecent(PassedEmits, maxHistorySize)
    /\ RejectedNotDelivered

=========================================================================
